---- MODULE Spec2Model ----
(***************************************************************************)
(* Model of the document-translation tool of                               *)
(* src/audit_iq_document_translator/src/audit_iq_document_translator/      *)
(* tool.py: the reference classifier, the object-storage gateway, the      *)
(* language normaliser and the translation orchestrator.                   *)
(*                                                                         *)
(* Python strings are sequences of one-character strings, so that the      *)
(* string tests of the code (startswith, in, rsplit, splitext, lower) are  *)
(* computed and not assumed.  Python's None is the one-element sequence    *)
(* None, which no string equals since "None" is not a character.           *)
(***************************************************************************)
EXTENDS Integers, Sequences, FiniteSets, TLC

None == <<"None">>

(***************************************************************************)
(* String constants of the source.                                         *)
(***************************************************************************)
s_https == <<"h","t","t","p","s",":","/","/">>
s_blob_domain == <<".","b","l","o","b",".","c","o","r","e",".","w","i","n","d","o","w","s",".","n","e","t">>
s_dot_slash == <<".","/">>
s_pdf == <<".","p","d","f">>
s_docx == <<".","d","o","c","x">>
s_doc == <<".","d","o","c">>
s_auto == <<"a","u","t","o">>
s_marker == <<"s","u","c","c","e","s","s","f","u","l","l","y"," ","t","r","a","n","s","l","a","t","e","d">>

UpperAlphabet == <<"A","B","C","D","E","F","G","H","I","J","K","L","M","N","O","P","Q","R","S","T","U","V","W","X","Y","Z">>
LowerAlphabet == <<"a","b","c","d","e","f","g","h","i","j","k","l","m","n","o","p","q","r","s","t","u","v","w","x","y","z">>

(***************************************************************************)
(* Python's str methods.                                                   *)
(***************************************************************************)
Range(s) == {s[i] : i \in 1..Len(s)}

LowerChar(c) ==
    IF \E i \in 1..Len(UpperAlphabet) : UpperAlphabet[i] = c
    THEN LowerAlphabet[CHOOSE i \in 1..Len(UpperAlphabet) : UpperAlphabet[i] = c]
    ELSE c

\* str.lower()
Lower(s) == [i \in 1..Len(s) |-> LowerChar(s[i])]

\* str.isalpha(): non-empty and every character a letter
IsAlpha(s) ==
    /\ Len(s) > 0
    /\ \A i \in 1..Len(s) : s[i] \in Range(UpperAlphabet) \cup Range(LowerAlphabet)

\* str.startswith(p)
StartsWith(s, p) == Len(p) <= Len(s) /\ SubSeq(s, 1, Len(p)) = p

\* sub in s
Contains(s, sub) ==
    \E i \in 0..(Len(s) - Len(sub)) : SubSeq(s, i + 1, i + Len(sub)) = sub

\* c in s, for one character
HasChar(s, c) == \E i \in 1..Len(s) : s[i] = c

\* str.find(c) and str.rfind(c), 1-based, 0 when absent
Find(s, c) == IF HasChar(s, c) THEN CHOOSE i \in 1..Len(s) : s[i] = c /\ \A j \in 1..(i - 1) : s[j] # c ELSE 0
RFind(s, c) == IF HasChar(s, c) THEN CHOOSE i \in 1..Len(s) : s[i] = c /\ \A j \in (i + 1)..Len(s) : s[j] # c ELSE 0

\* s[:i-1] and s[i:] around the 1-based position i
Before(s, i) == SubSeq(s, 1, i - 1)
After(s, i) == SubSeq(s, i + 1, Len(s))
From(s, i) == SubSeq(s, i, Len(s))

\* str.strip() for blanks
RECURSIVE LStrip(_, _)
LStrip(s, c) == IF Len(s) > 0 /\ s[1] = c THEN LStrip(Tail(s), c) ELSE s
RECURSIVE RStrip(_, _)
RStrip(s, c) == IF Len(s) > 0 /\ s[Len(s)] = c THEN RStrip(SubSeq(s, 1, Len(s) - 1), c) ELSE s
Strip(s) == RStrip(LStrip(s, " "), " ")

\* `not s` for an Optional[str]
Falsy(s) == s = None \/ s = <<>>

(***************************************************************************)
(* posixpath and pathlib, as far as the tool uses them.                    *)
(***************************************************************************)
\* os.path.isabs
isabs(p) == StartsWith(p, <<"/">>)

\* os.path.basename
basename(p) == After(p, RFind(p, "/"))

\* os.path.dirname
dirname(p) ==
    LET head == Before(p, RFind(p, "/") + 1)
    IN  IF head # <<>> /\ \E i \in 1..Len(head) : head[i] # "/"
        THEN RStrip(head, "/")
        ELSE head

\* os.path.splitext: the last dot of the last component, leading dots skipped
splitext(p) ==
    LET sep == RFind(p, "/")
        dot == RFind(p, ".")
    IN  IF dot > sep /\ \E k \in (sep + 1)..(dot - 1) : p[k] # "."
        THEN <<Before(p, dot), From(p, dot)>>
        ELSE <<p, <<>>>>

\* PurePath.suffix and PurePath.stem of a file name
PathSuffix(name) ==
    LET i == RFind(name, ".")
    IN  IF 1 < i /\ i < Len(name) THEN From(name, i) ELSE <<>>
PathStem(name) ==
    LET i == RFind(name, ".")
    IN  IF 1 < i /\ i < Len(name) THEN Before(name, i) ELSE name

\* directory / name
PathJoin(dir, name) == IF dir = <<"/">> THEN dir \o name ELSE dir \o <<"/">> \o name

(***************************************************************************)
(* AzureBlobStorageHelper: recognising and parsing storage references.     *)
(***************************************************************************)
\* the test `x.startswith('https://') and '.blob.core.windows.net' in x`
IsBlobUrl(path) == StartsWith(path, s_https) /\ Contains(path, s_blob_domain)

\* is_blob_path without the test for a leading './'
is_blob_path_no_dot_slash(path) ==
    IF path = <<>> THEN FALSE
    ELSE IF IsBlobUrl(path) THEN TRUE
    ELSE HasChar(path, "/") /\ ~isabs(path)

\* is_blob_path
is_blob_path(path) ==
    IF path = <<>> THEN FALSE
    ELSE IF IsBlobUrl(path) THEN TRUE
    ELSE IF HasChar(path, "/") /\ ~isabs(path) /\ ~StartsWith(path, s_dot_slash) THEN TRUE
    ELSE FALSE

\* first position of '/', '?' or '#', or Len + 1
FirstOf(s, cs) ==
    IF \E i \in 1..Len(s) : s[i] \in cs
    THEN CHOOSE i \in 1..Len(s) : s[i] \in cs /\ \A j \in 1..(i - 1) : s[j] \notin cs
    ELSE Len(s) + 1

\* urllib.parse.urlparse(url).hostname of an https URL (None when empty)
UrlHostname(url) ==
    LET rest   == From(url, Len(s_https) + 1)
        netloc == Before(rest, FirstOf(rest, {"/", "?", "#"}))
        host0  == After(netloc, RFind(netloc, "@"))
        host   == Before(host0, FirstOf(host0, {":"}))
    IN  IF host = <<>> THEN None ELSE Lower(host)

\* urllib.parse.urlparse(url).path of an https URL
UrlPath(url) ==
    LET rest == From(url, Len(s_https) + 1)
        tail == From(rest, FirstOf(rest, {"/", "?", "#"}))
    IN  Before(tail, FirstOf(tail, {"?", "#"}))

\* parse_blob_url: [ok, account, container, blob]; ok = FALSE is ValueError
parse_blob_url(blob_url) ==
    LET host == UrlHostname(blob_url)
        path == LStrip(UrlPath(blob_url), "/")
        cut  == FirstOf(path, {"/"})
    IN  IF host = None
        THEN [ok |-> FALSE, account |-> <<>>, container |-> <<>>, blob |-> <<>>]
        ELSE [ok |-> TRUE,
              account   |-> Before(host, FirstOf(host, {"."})),
              container |-> Before(path, cut),
              blob      |-> After(path, cut)]

\* parse_blob_path: split('/', 1); ok = FALSE is ValueError
parse_blob_path(blob_path) ==
    LET cut == Find(blob_path, "/")
    IN  IF cut = 0
        THEN [ok |-> FALSE, account |-> <<>>, container |-> <<>>, blob |-> <<>>]
        ELSE [ok |-> TRUE, account |-> <<>>,
              container |-> Before(blob_path, cut),
              blob      |-> After(blob_path, cut)]

\* the branch both download and upload take to parse a reference
ParseBlobRef(ref) == IF IsBlobUrl(ref) THEN parse_blob_url(ref) ELSE parse_blob_path(ref)

\* get_suggested_output_blob_path with the language suffix left out: the
\* destination is the source object itself
get_suggested_output_blob_path_in_place(input_blob_path, target_language) ==
    LET p == ParseBlobRef(input_blob_path)
    IN  p.container \o <<"/">> \o p.blob

\* get_suggested_output_blob_path with the directory of the blob left out
get_suggested_output_blob_path_flat(input_blob_path, target_language) ==
    LET p     == ParseBlobRef(input_blob_path)
        parts == splitext(basename(p.blob))
    IN  p.container \o <<"/">> \o parts[1] \o <<"_">> \o target_language \o parts[2]

\* get_suggested_output_blob_path; called only on a reference that parsed
get_suggested_output_blob_path(input_blob_path, target_language) ==
    LET p               == ParseBlobRef(input_blob_path)
        directory       == dirname(p.blob)
        parts           == splitext(basename(p.blob))
        output_filename == parts[1] \o <<"_">> \o target_language \o parts[2]
        output_blob_name == IF directory # <<>>
                            THEN directory \o <<"/">> \o output_filename
                            ELSE output_filename
    IN  p.container \o <<"/">> \o output_blob_name

(***************************************************************************)
(* CrossPlatformDocumentsHelper.get_suggested_output_path, on the string   *)
(* of the path.                                                            *)
(***************************************************************************)
get_suggested_output_path(input_path, target_language) ==
    LET name == basename(input_path)
    IN  PathJoin(dirname(input_path),
                 PathStem(name) \o <<"_">> \o target_language \o PathSuffix(name))

(***************************************************************************)
(* SimpleTranslationHelper                                                 *)
(***************************************************************************)
language_codes ==
    {
      <<<<"s","p","a","n","i","s","h">>, <<"e","s">>>>,
      <<<<"f","r","e","n","c","h">>, <<"f","r">>>>,
      <<<<"g","e","r","m","a","n">>, <<"d","e">>>>,
      <<<<"i","t","a","l","i","a","n">>, <<"i","t">>>>,
      <<<<"p","o","r","t","u","g","u","e","s","e">>, <<"p","t">>>>,
      <<<<"c","h","i","n","e","s","e">>, <<"z","h">>>>,
      <<<<"j","a","p","a","n","e","s","e">>, <<"j","a">>>>,
      <<<<"k","o","r","e","a","n">>, <<"k","o">>>>,
      <<<<"r","u","s","s","i","a","n">>, <<"r","u">>>>,
      <<<<"a","r","a","b","i","c">>, <<"a","r">>>>,
      <<<<"h","i","n","d","i">>, <<"h","i">>>>,
      <<<<"d","u","t","c","h">>, <<"n","l">>>>,
      <<<<"s","w","e","d","i","s","h">>, <<"s","v">>>>,
      <<<<"n","o","r","w","e","g","i","a","n">>, <<"n","o">>>>,
      <<<<"d","a","n","i","s","h">>, <<"d","a">>>>,
      <<<<"f","i","n","n","i","s","h">>, <<"f","i">>>>,
      <<<<"p","o","l","i","s","h">>, <<"p","l">>>>,
      <<<<"c","z","e","c","h">>, <<"c","s">>>>,
      <<<<"h","u","n","g","a","r","i","a","n">>, <<"h","u">>>>,
      <<<<"g","r","e","e","k">>, <<"e","l">>>>,
      <<<<"t","u","r","k","i","s","h">>, <<"t","r">>>>,
      <<<<"h","e","b","r","e","w">>, <<"h","e">>>>,
      <<<<"t","h","a","i">>, <<"t","h">>>>,
      <<<<"v","i","e","t","n","a","m","e","s","e">>, <<"v","i">>>>,
      <<<<"i","n","d","o","n","e","s","i","a","n">>, <<"i","d">>>>,
      <<<<"m","a","l","a","y">>, <<"m","s">>>>,
      <<<<"t","a","g","a","l","o","g">>, <<"t","l">>>>,
      <<<<"u","k","r","a","i","n","i","a","n">>, <<"u","k">>>>,
      <<<<"b","u","l","g","a","r","i","a","n">>, <<"b","g">>>>,
      <<<<"r","o","m","a","n","i","a","n">>, <<"r","o">>>>,
      <<<<"c","r","o","a","t","i","a","n">>, <<"h","r">>>>,
      <<<<"s","e","r","b","i","a","n">>, <<"s","r">>>>,
      <<<<"s","l","o","v","a","k">>, <<"s","k">>>>,
      <<<<"s","l","o","v","e","n","i","a","n">>, <<"s","l">>>>,
      <<<<"l","i","t","h","u","a","n","i","a","n">>, <<"l","t">>>>,
      <<<<"l","a","t","v","i","a","n">>, <<"l","v">>>>,
      <<<<"e","s","t","o","n","i","a","n">>, <<"e","t">>>>
    }

\* dict.get: the code of a language name, None when the table lacks it
LanguageLookup(name) ==
    IF \E e \in language_codes : e[1] = name
    THEN (CHOOSE e \in language_codes : e[1] = name)[2]
    ELSE None

\* normalize_language_code taking only three letters for a code
normalize_language_code_three_only(language) ==
    LET lang_lower == Strip(Lower(language))
    IN  IF Len(lang_lower) = 3 /\ IsAlpha(lang_lower)
        THEN lang_lower
        ELSE LanguageLookup(lang_lower)

\* normalize_language_code without strip()
normalize_language_code_no_strip(language) ==
    LET lang_lower == Lower(language)
    IN  IF Len(lang_lower) \in {2, 3} /\ IsAlpha(lang_lower)
        THEN lang_lower
        ELSE LanguageLookup(lang_lower)

\* normalize_language_code
normalize_language_code(language) ==
    LET lang_lower == Strip(Lower(language))
    IN  IF Len(lang_lower) \in {2, 3} /\ IsAlpha(lang_lower)
        THEN lang_lower
        ELSE LanguageLookup(lang_lower)

(***************************************************************************)
(* CrossPlatformDocumentsHelper: searching a directory listing.  A listing *)
(* is the sequence of file names in the order iterdir() yields them.       *)
(***************************************************************************)
supported_extensions == {s_pdf, s_docx, s_doc}

\* the least score _find_partial_match accepts
MinPartialScore == 3

\* name.rsplit('.', 1)[0] if '.' in name else name
RBase(name) == IF HasChar(name, ".") THEN Before(name, RFind(name, ".")) ELSE name
\* '.' + name.rsplit('.', 1)[1] if '.' in name else ''
RExt(name) == IF HasChar(name, ".") THEN From(name, RFind(name, ".")) ELSE <<>>

\* _matches_with_extension, the same code in both helpers
_matches_with_extension(search_name, file_name) ==
    IF ~HasChar(search_name, ".")
    THEN \E ext \in supported_extensions : file_name = search_name \o ext
    ELSE RBase(search_name) = RBase(file_name) /\ RExt(file_name) \in supported_extensions

\* len(_longest_common_substring(str1, str2))
_longest_common_substring(str1, str2) ==
    LET ok(n) == \E i \in 1..(Len(str1) - n + 1) : Contains(str2, SubSeq(str1, i, i + n - 1))
    IN  CHOOSE n \in 0..Len(str1) : (n = 0 \/ ok(n)) /\ \A m \in (n + 1)..Len(str1) : ~ok(m)

\* the loop of _find_partial_match with `score >= best_score`: of the
\* files with the greatest score the last one is kept
RECURSIVE PartialScan_last_wins(_, _, _, _)
PartialScan_last_wins(search_base, listing, k, best) ==
    IF k > Len(listing) THEN best
    ELSE LET file_name == Lower(listing[k])
             file_base == RBase(file_name)
             qualifies == /\ RExt(file_name) \in supported_extensions
                          /\ Contains(file_base, search_base) \/ Contains(search_base, file_base)
             score     == _longest_common_substring(search_base, file_base)
         IN  IF qualifies /\ score >= best[2]
             THEN PartialScan_last_wins(search_base, listing, k + 1, <<listing[k], score>>)
             ELSE PartialScan_last_wins(search_base, listing, k + 1, best)

\* the loop of _find_partial_match from entry k on: <<best_match, best_score>>
RECURSIVE PartialScan(_, _, _, _)
PartialScan(search_base, listing, k, best) ==
    IF k > Len(listing) THEN best
    ELSE LET file_name == Lower(listing[k])
             file_base == RBase(file_name)
             qualifies == /\ RExt(file_name) \in supported_extensions
                          /\ Contains(file_base, search_base) \/ Contains(search_base, file_base)
             score     == _longest_common_substring(search_base, file_base)
         IN  IF qualifies /\ score > best[2]
             THEN PartialScan(search_base, listing, k + 1, <<listing[k], score>>)
             ELSE PartialScan(search_base, listing, k + 1, best)

\* _find_partial_match: a file name of the listing, or None
_find_partial_match(search_name, listing) ==
    LET best == PartialScan(RBase(search_name), listing, 1, <<None, 0>>)
    IN  IF best[2] >= MinPartialScore THEN best[1] ELSE None

\* _search_file_in_directory with the partial match tried first
_search_file_in_directory_partial_first(filename, listing) ==
    LET search_name == Lower(filename)
        hit(k) == \/ Lower(listing[k]) = search_name
                  \/ _matches_with_extension(search_name, Lower(listing[k]))
        partial == _find_partial_match(search_name, listing)
    IN  IF partial # None THEN partial
        ELSE IF \E k \in 1..Len(listing) : hit(k)
        THEN listing[CHOOSE k \in 1..Len(listing) : hit(k) /\ \A j \in 1..(k - 1) : ~hit(j)]
        ELSE None

\* _search_file_in_directory: the first exact or extension match, else the
\* partial match; a file name of the listing, or None
_search_file_in_directory(filename, listing) ==
    LET search_name == Lower(filename)
        hit(k) == \/ Lower(listing[k]) = search_name
                  \/ _matches_with_extension(search_name, Lower(listing[k]))
    IN  IF \E k \in 1..Len(listing) : hit(k)
        THEN listing[CHOOSE k \in 1..Len(listing) : hit(k) /\ \A j \in 1..(k - 1) : ~hit(j)]
        ELSE _find_partial_match(search_name, listing)

(***************************************************************************)
(* The local environment: the process runs on Linux in working directory   *)
(* Cwd with home directory Home.                                           *)
(***************************************************************************)
Cwd == <<"/","w","/","a","p","p">>
Home == <<"/","h">>
s_Documents == <<"D","o","c","u","m","e","n","t","s">>

\* components of a path, '' and '.' dropped, '..' applied
RECURSIVE NormParts(_, _)
NormParts(p, acc) ==
    IF p = <<>> THEN acc
    ELSE LET cut  == FirstOf(p, {"/"})
             comp == Before(p, cut)
             rest == After(p, cut)
         IN  IF comp = <<>> \/ comp = <<".">> THEN NormParts(rest, acc)
             ELSE IF comp = <<".", ".">>
                  THEN NormParts(rest, IF acc = <<>> THEN acc ELSE SubSeq(acc, 1, Len(acc) - 1))
                  ELSE NormParts(rest, Append(acc, comp))

RECURSIVE JoinParts(_)
JoinParts(parts) == IF parts = <<>> THEN <<>> ELSE <<"/">> \o Head(parts) \o JoinParts(Tail(parts))

\* os.path.abspath
abspath(p) ==
    LET parts == NormParts(IF isabs(p) THEN p ELSE Cwd \o <<"/">> \o p, <<>>)
    IN  IF parts = <<>> THEN <<"/">> ELSE JoinParts(parts)

\* remove duplicates, keeping the first of each
RECURSIVE Unique(_, _)
Unique(s, acc) ==
    IF s = <<>> THEN acc
    ELSE Unique(Tail(s), IF \E i \in 1..Len(acc) : acc[i] = Head(s) THEN acc ELSE Append(acc, Head(s)))

\* get_documents_folders on Linux; env_path is the value of
\* DOCUMENTS_FOLDER_PATH and username that of USER (None when unset)
get_documents_folders_linux(env_path, username) ==
    Unique((IF Falsy(env_path) THEN <<>> ELSE <<env_path>>)
           \o << PathJoin(Cwd, s_Documents),
                 PathJoin(dirname(Cwd), s_Documents),
                 PathJoin(Home, s_Documents),
                 PathJoin(Home, s_Documents) >>
           \o (IF Falsy(username)
               THEN <<>>
               ELSE <<PathJoin(<<"/","h","o","m","e","/">> \o username, s_Documents)>>), <<>>)

\* get_documents_folders with USER unset
get_documents_folders(env_path) == get_documents_folders_linux(env_path, None)

\* the loop of find_documents_folder returning the last valid candidate
find_documents_folder_last(candidates, valid) ==
    IF \E i \in 1..Len(candidates) : candidates[i] \in valid
    THEN candidates[CHOOSE i \in 1..Len(candidates) :
                       candidates[i] \in valid
                       /\ \A j \in (i + 1)..Len(candidates) : candidates[j] \notin valid]
    ELSE None

\* the loop of find_documents_folder: the first candidate that exists, is
\* a directory and is readable (valid), or None
find_documents_folder_in(candidates, valid) ==
    IF \E i \in 1..Len(candidates) : candidates[i] \in valid
    THEN candidates[CHOOSE i \in 1..Len(candidates) :
                       candidates[i] \in valid /\ \A j \in 1..(i - 1) : candidates[j] \notin valid]
    ELSE None

\* find_documents_folder with USER unset
find_documents_folder(env_path, valid) ==
    find_documents_folder_in(get_documents_folders(env_path), valid)

(***************************************************************************)
(* The objects of the model's world.                                       *)
(***************************************************************************)
r_report       == <<"r","e","p","o","r","t",".","p","d","f">>
r_missing      == <<"m","i","s","s","i","n","g",".","p","d","f">>
r_marked       == <<"s","u","c","c","e","s","s","f","u","l","l","y"," ","t","r","a","n","s","l","a","t","e","d",".","p","d","f">>
r_blob_path    == <<"m","y","c","o","n","t","a","i","n","e","r","/","r","e","p","o","r","t",".","p","d","f">>
r_blob_txt     == <<"m","y","c","o","n","t","a","i","n","e","r","/","n","o","t","e","s",".","t","x","t">>
r_blob_url     == <<"h","t","t","p","s",":","/","/","a","c","c","t",".","b","l","o","b",".","c","o","r","e",".","w","i","n","d","o","w","s",".","n","e","t","/","m","y","c","o","n","t","a","i","n","e","r","/","d","i","r","/","r","e","p","o","r","t",".","p","d","f">>
r_abs_path     == <<"/","d","o","c","s","/","r","e","p","o","r","t",".","p","d","f">>
r_rel_path     == <<".","/","r","e","p","o","r","t",".","p","d","f">>

o_local_abs    == <<"/","o","u","t","/","r","e","s","u","l","t",".","p","d","f">>
o_local_name   == <<"r","e","s","u","l","t",".","p","d","f">>
o_blob_path    == <<"o","u","t","c","o","n","t","a","i","n","e","r","/","r","e","s","u","l","t",".","p","d","f">>
o_blob_url     == <<"h","t","t","p","s",":","/","/","a","c","c","t",".","b","l","o","b",".","c","o","r","e",".","w","i","n","d","o","w","s",".","n","e","t","/","o","u","t","c","o","n","t","a","i","n","e","r","/","r","e","s","u","l","t",".","p","d","f">>

l_es           == <<"e","s">>
l_en           == <<"e","n">>
l_Spanish      == <<"S","p","a","n","i","s","h">>
l_klingon      == <<"k","l","i","n","g","o","n">>

c_documents    == <<"d","o","c","u","m","e","n","t","s">>
c_files        == <<"f","i","l","e","s">>
c_source       == <<"s","o","u","r","c","e">>
c_input        == <<"i","n","p","u","t">>
c_mycontainer  == <<"m","y","c","o","n","t","a","i","n","e","r">>
c_outcontainer == <<"o","u","t","c","o","n","t","a","i","n","e","r">>
c_archive      == <<"a","r","c","h","i","v","e">>

d_home_docs    == PathJoin(Home, s_Documents)

\* what a caller may pass to _run
FileRefs == {r_report, r_missing, r_marked, r_blob_path, r_blob_txt, r_blob_url, r_abs_path, r_rel_path}
Targets  == {l_es, l_Spanish, l_klingon, s_auto}
Sources  == {s_auto, l_en}
Outputs  == {<<>>, o_local_abs, o_local_name, o_blob_path, o_blob_url}

\* object storage: the containers in list_containers() order, each with its
\* blobs in list_blobs() order
Storages ==
    { << [name |-> c_documents,    blobs |-> <<r_report>>],
         [name |-> c_mycontainer,  blobs |-> <<r_report, <<"d","i","r","/","r","e","p","o","r","t",".","p","d","f">>, <<"n","o","t","e","s",".","t","x","t">>>>],
         [name |-> c_outcontainer, blobs |-> <<>>] >>,
      << [name |-> c_archive,      blobs |-> <<r_missing>>] >> }

\* the local disk: the directories that are valid Documents folders, the
\* listing of the Documents folder, the other files that exist
LocalDisks ==
    { [valid_dirs |-> {}, docs |-> <<>>, local_files |-> {}],
      [valid_dirs |-> {d_home_docs},
       docs |-> <<<<"R","e","p","o","r","t",".","P","D","F">>, r_marked, <<"n","o","t","e","s",".","t","x","t">>>>,
       local_files |-> {r_abs_path, PathJoin(Cwd, r_report)}] }

(***************************************************************************)
(* Messages.  A message is what its reader can tell from it: whether it is *)
(* a success or a failure message (its leading mark), its category (the    *)
(* fixed words of its head line), the strings interpolated into it, and    *)
(* whether it states the byte count of the output.                         *)
(***************************************************************************)
Msg(kind, category, text, bytes) ==
    [kind |-> kind, category |-> category, text |-> text, bytes |-> bytes]

NoResult == Msg("none", "", <<>>, FALSE)

_format_error(error_type, details) == Msg("failure", error_type, details, FALSE)

_format_success(input_path, output_path, target_lang, result) ==
    Msg("success", "Translation Successful",
        <<basename(input_path), basename(output_path), target_lang, dirname(output_path)>>
            \o result.text,
        result.bytes)

_format_success_blob(input_blob_path, output_blob_path, blob_url, target_lang, result) ==
    Msg("success", "Translation Successful (Blob Storage)",
        <<basename(input_blob_path), input_blob_path,
          basename(output_blob_path), output_blob_path, target_lang, blob_url>>
            \o result.text,
        result.bytes)

_format_success_mixed(input_path, output_path, target_lang, output_type) ==
    Msg("success", "Translation Successful (Mixed Storage)",
        <<basename(input_path), basename(output_path), target_lang, output_path>>,
        FALSE)

(***************************************************************************)
(* _perform_azure_translation.  tx is what happens in it: the first step   *)
(* that fails, or "ok".                                                    *)
(***************************************************************************)
TxOutcomes ==
    {"ok", "no_credentials", "client_error", "read_not_found", "translate_error",
     "write_permission"}

\* the backend's translate was called / returned the translated bytes
TranslateCalled(tx)   == tx \in {"translate_error", "write_permission", "ok"}
TranslateReturned(tx) == tx \in {"write_permission", "ok"}

\* the message _perform_azure_translation returns
_perform_azure_translation(tx, file_path, target_language, source_language, output_file_path) ==
    CASE tx = "no_credentials" ->
            Msg("failure", "Error: Azure Document Translation credentials not configured", <<>>, FALSE)
      [] tx = "read_not_found" ->
            Msg("failure", "Error: Could not find document file at", <<file_path>>, FALSE)
      [] tx = "write_permission" ->
            Msg("failure", "Error: Permission denied when accessing file",
                <<file_path, output_file_path>>, FALSE)
      [] tx \in {"client_error", "translate_error"} ->
            Msg("failure", "Error translating document", <<>>, FALSE)
      [] OTHER ->
            Msg("success", "Successfully translated",
                <<source_language, target_language, output_file_path>>, TRUE)

\* "successfully translated" in result.lower(), wrongly taken for success
is_success_result_always(result) == TRUE

\* "successfully translated" in result.lower()
is_success_result(result) ==
    \/ result.category = "Successfully translated"
    \/ \E i \in 1..Len(result.text) : Contains(Lower(result.text[i]), s_marker)

(***************************************************************************)
(* Object storage, as the gateway sees it.  A call is recorded with its    *)
(* operation and whether it returned.                                      *)
(***************************************************************************)
Call(op, ok) == [op |-> op, ok |-> ok]

\* what os.getenv gives for the endpoint and for the key: unset, empty, set
EnvValues == {None, <<>>, <<"s","e","t">>}

\* `not endpoint or not key`
credentials_missing(endpoint, key) == Falsy(endpoint) \/ Falsy(key)

\* the runs of _perform_azure_translation: the environment it reads and
\* what happens in it; the credentials failure is the one of a missing
\* endpoint or key
PerformCases ==
    {c \in [endpoint : EnvValues, key : EnvValues, tx : TxOutcomes] :
        (c.tx = "no_credentials") <=> credentials_missing(c.endpoint, c.key)}

\* the keyword arguments of client.translate, the source language passed
\* whatever it is
translate_arguments_always(target_language, source_language) ==
    [target_language |-> target_language, source_language |-> source_language]

\* the keyword arguments of client.translate
translate_arguments(target_language, source_language) ==
    IF source_language # s_auto
    THEN [target_language |-> target_language, source_language |-> source_language]
    ELSE [target_language |-> target_language]

\* the call of the backend with its keyword arguments
TranslateCall(ok, kwargs) == [op |-> "translate", ok |-> ok, kwargs |-> kwargs]

\* _perform_azure_translation with the client constructed before the
\* credentials are looked at
perform_calls_client_first(tx, kwargs) ==
    LET steps == << Call("SingleDocumentTranslationClient", tx # "client_error"),
                    Call("read", tx # "read_not_found"),
                    TranslateCall(tx # "translate_error", kwargs),
                    Call("write", tx # "write_permission") >>
    IN  CASE tx = "no_credentials"  -> SubSeq(steps, 1, 1)
          [] tx = "client_error"    -> SubSeq(steps, 1, 1)
          [] tx = "read_not_found"  -> SubSeq(steps, 1, 2)
          [] tx = "translate_error" -> SubSeq(steps, 1, 3)
          [] OTHER                  -> steps

\* what _perform_azure_translation does, in order, up to the first step
\* that fails: construct the client, read the input file, call the
\* backend, write the output file
perform_calls(tx, kwargs) ==
    LET steps == << Call("SingleDocumentTranslationClient", tx # "client_error"),
                    Call("read", tx # "read_not_found"),
                    TranslateCall(tx # "translate_error", kwargs),
                    Call("write", tx # "write_permission") >>
    IN  CASE tx = "no_credentials"  -> <<>>
          [] tx = "client_error"    -> SubSeq(steps, 1, 1)
          [] tx = "read_not_found"  -> SubSeq(steps, 1, 2)
          [] tx = "translate_error" -> SubSeq(steps, 1, 3)
          [] OTHER                  -> steps

ContainerNames(st) == [i \in 1..Len(st) |-> st[i].name]
HasContainer(st, c) == \E i \in 1..Len(st) : st[i].name = c
BlobsOf(st, c) == st[CHOOSE i \in 1..Len(st) : st[i].name = c].blobs
BlobExists(st, c, b) ==
    HasContainer(st, c) /\ \E j \in 1..Len(BlobsOf(st, c)) : BlobsOf(st, c)[j] = b

\* upload_blob(overwrite=True) into an existing container
PutBlob(st, c, b) ==
    [i \in 1..Len(st) |->
        IF st[i].name = c /\ ~BlobExists(st, c, b)
        THEN [st[i] EXCEPT !.blobs = Append(@, b)]
        ELSE st[i]]

\* blob_client.url
BlobUrl(c, b) == s_https \o <<"a","c","c","t">> \o s_blob_domain \o <<"/">> \o c \o <<"/">> \o b

common_containers == <<c_documents, c_files, c_source, c_input>>

\* all_containers[:5]
MaxScannedContainers == 5

\* the loop over containers_to_search from entry k on
RECURSIVE FindBlobScan(_, _, _, _, _)
FindBlobScan(search_filename, containers, k, st, lb_ok) ==
    IF k > Len(containers) THEN [found |-> None, calls |-> <<>>]
    ELSE LET container == containers[k]
         IN  IF ~lb_ok \/ ~HasContainer(st, container)
             THEN LET rest == FindBlobScan(search_filename, containers, k + 1, st, lb_ok)
                  IN  [rest EXCEPT !.calls = <<Call("list_blobs", FALSE)>> \o @]
             ELSE LET blobs  == BlobsOf(st, container)
                      hit(j) == LET blob_filename == Lower(basename(blobs[j]))
                                IN  \/ blob_filename = search_filename
                                    \/ _matches_with_extension(search_filename, blob_filename)
                  IN  IF \E j \in 1..Len(blobs) : hit(j)
                      THEN [found |-> container \o <<"/">> \o
                                      blobs[CHOOSE j \in 1..Len(blobs) :
                                                hit(j) /\ \A i \in 1..(j - 1) : ~hit(i)],
                            calls |-> <<Call("list_blobs", TRUE)>>]
                      ELSE LET rest == FindBlobScan(search_filename, containers, k + 1, st, lb_ok)
                           IN  [rest EXCEPT !.calls = <<Call("list_blobs", TRUE)>> \o @]

\* find_blob_by_filename scanning every discovered container, without the
\* limit of all_containers[:5]
find_blob_by_filename_unbounded(filename, client, st, lc_ok, lb_ok) ==
    IF ~client THEN [found |-> None, calls |-> <<>>]
    ELSE LET all_containers == ContainerNames(st)
             InAll(c)       == \E i \in 1..Len(all_containers) : all_containers[i] = c
             preferred      == SelectSeq(common_containers, InAll)
             containers_to_search ==
                 IF ~lc_ok THEN common_containers
                 ELSE IF preferred # <<>> THEN preferred
                 ELSE all_containers
             scan == FindBlobScan(Lower(filename), containers_to_search, 1, st, lb_ok)
         IN  [scan EXCEPT !.calls = <<Call("list_containers", lc_ok)>> \o @]

\* find_blob_by_filename without a container hint: the path found (or None)
\* and the calls made; lc_ok, lb_ok: list_containers, list_blobs return
find_blob_by_filename(filename, client, st, lc_ok, lb_ok) ==
    IF ~client THEN [found |-> None, calls |-> <<>>]
    ELSE LET all_containers == ContainerNames(st)
             InAll(c)       == \E i \in 1..Len(all_containers) : all_containers[i] = c
             preferred      == SelectSeq(common_containers, InAll)
             containers_to_search ==
                 IF ~lc_ok THEN common_containers
                 ELSE IF preferred # <<>> THEN preferred
                 ELSE SubSeq(all_containers, 1,
                             IF Len(all_containers) < MaxScannedContainers
                             THEN Len(all_containers) ELSE MaxScannedContainers)
             scan == FindBlobScan(Lower(filename), containers_to_search, 1, st, lb_ok)
         IN  [scan EXCEPT !.calls = <<Call("list_containers", lc_ok)>> \o @]

\* the name NamedTemporaryFile gives its n-th file
TempName(n, suffix) == <<"/","t","m","p","/","t","m","p">> \o <<<<"1","2","3","4">>[n]>> \o suffix

\* the except clauses of download_blob_to_temp: the exception that leaves
\* it for an exception raised in its try block
download_except(e) ==
    CASE e = "ResourceNotFoundError" -> "FileNotFoundError"
      [] e = "AzureError"            -> "RuntimeError"
      [] OTHER                       -> "RuntimeError"

DownloadOutcomes ==
    {"ok", "exists_error", "tempfile_error", "download_not_found", "download_error"}

\* download_blob_to_temp: exc is the exception it raises ("none": it
\* returns temp_path and original_filename), created the temporary files it
\* created, calls the storage calls it made
download_blob_to_temp(blob_path, client, st, dl, n) ==
    LET p    == ParseBlobRef(blob_path)
        name == basename(p.blob)
        temp == TempName(n, splitext(name)[2])
        Out(e, t, f, created, calls) ==
            [exc |-> e, temp_path |-> t, original_filename |-> f,
             created |-> created, calls |-> calls]
    IN  IF ~client THEN Out("RuntimeError", None, None, {}, <<>>)
        ELSE IF ~p.ok THEN Out(download_except("ValueError"), None, None, {}, <<>>)
        ELSE IF dl = "exists_error"
             THEN Out(download_except("AzureError"), None, None, {}, <<Call("exists", FALSE)>>)
        ELSE IF ~BlobExists(st, p.container, p.blob)
             THEN Out(download_except("FileNotFoundError"), None, None, {},
                      <<Call("exists", TRUE)>>)
        ELSE IF dl = "tempfile_error"
             THEN Out(download_except("OSError"), None, None, {}, <<Call("exists", TRUE)>>)
        ELSE IF dl = "download_not_found"
             THEN Out(download_except("ResourceNotFoundError"), None, None, {temp},
                      <<Call("exists", TRUE), Call("download_blob", FALSE)>>)
        ELSE IF dl = "download_error"
             THEN Out(download_except("AzureError"), None, None, {temp},
                      <<Call("exists", TRUE), Call("download_blob", FALSE)>>)
        ELSE Out("none", temp, name, {temp},
                 <<Call("exists", TRUE), Call("download_blob", TRUE)>>)

UploadOutcomes == {"ok", "local_missing", "azure_error"}

\* upload_file_to_blob: exc is the exception it raises ("none": uploaded)
upload_file_to_blob(blob_path, client, st, up) ==
    LET p == ParseBlobRef(blob_path)
    IN  IF ~client THEN [exc |-> "RuntimeError", calls |-> <<>>]
        ELSE IF ~p.ok THEN [exc |-> "RuntimeError", calls |-> <<>>]
        ELSE IF up = "local_missing" THEN [exc |-> "FileNotFoundError", calls |-> <<>>]
        ELSE IF up = "azure_error" \/ ~HasContainer(st, p.container)
             THEN [exc |-> "RuntimeError", calls |-> <<Call("upload_blob", FALSE)>>]
        ELSE [exc |-> "none", calls |-> <<Call("upload_blob", TRUE)>>]

(***************************************************************************)
(* The state.                                                              *)
(***************************************************************************)
VARIABLES
    blob_service_client,  \* AzureBlobStorageHelper: TRUE when the client was constructed
    storage,              \* object storage
    valid_dirs,           \* local directories that are valid Documents folders
    docs,                 \* listing of the Documents folder
    local_files,          \* other local files that exist
    file_path,            \* _run's arguments
    target_language,
    source_language,
    output_file_path,
    use_blob_storage,
    defaulted,            \* TRUE when the caller passed only the first two arguments
    handler,              \* the handler _run dispatched to
    frame,                \* the local variables of the handler
    pc,                   \* the handler's position
    result,               \* the message returned
    calls,                \* the backend calls made, in order
    tmp,                  \* the temporary files that exist
    tmp_count,            \* the temporary files created so far
    delivered,            \* where translated bytes were written
    cleanup_failed,       \* TRUE when an unlink of the cleanup raised
    arg,                  \* the arguments of a helper that is called on its own
    ret,                  \* what that helper returned
    requests,             \* the invocations that run concurrently, each with its locals
    contents              \* the temporary files of concurrent invocations: what each holds

env  == <<blob_service_client, valid_dirs, docs>>
req  == <<file_path, target_language, source_language, output_file_path, use_blob_storage, defaulted, handler>>
vars == <<blob_service_client, storage, valid_dirs, docs, local_files, file_path,
          target_language, source_language, output_file_path, use_blob_storage,
          defaulted, handler, frame, pc, result, calls, tmp, tmp_count, delivered,
          cleanup_failed, arg, ret, requests, contents>>
probe == <<arg, ret, requests, contents>>
req_args == <<file_path, target_language, source_language, output_file_path,
              use_blob_storage, defaulted>>

NoFrame ==
    [input_blob_path |-> None, target_lang_code |-> None, temp_input_path |-> None,
     original_filename |-> None, temp_output_path |-> None, translation_result |-> NoResult,
     output_blob_path |-> None, input_path |-> None, output_path |-> None,
     endpoint |-> None, key |-> None]

Init ==
    /\ blob_service_client \in BOOLEAN
    /\ storage \in Storages
    /\ \E disk \in LocalDisks :
          /\ valid_dirs = disk.valid_dirs
          /\ docs = disk.docs
          /\ local_files = disk.local_files
    /\ file_path = <<>> /\ target_language = <<>> /\ source_language = <<>>
    /\ output_file_path = <<>> /\ use_blob_storage = FALSE /\ defaulted = FALSE
    /\ handler = "none" /\ frame = NoFrame /\ pc = "idle" /\ result = NoResult
    /\ calls = <<>> /\ tmp = {} /\ tmp_count = 0 /\ delivered = {} /\ cleanup_failed = FALSE
    /\ arg = None /\ ret = None /\ requests = <<>> /\ contents = <<>>

(***************************************************************************)
(* _run: the dispatch.                                                     *)
(***************************************************************************)
\* the defaults of _run's optional parameters
default_source_language  == s_auto
default_output_file_path == <<>>
default_use_blob_storage == TRUE

\* the dispatch with `and` for `or` in use_blob
dispatch_and(path, use_blob) ==
    IF use_blob /\ is_blob_path(path) THEN "_translate_blob_storage"
    ELSE IF ~isabs(path) /\ ~HasChar(path, "/") /\ ~HasChar(path, "\\")
         THEN "_translate_by_filename"
         ELSE "_translate_by_full_path"

\* the handler _run calls
dispatch(path, use_blob) ==
    IF use_blob \/ is_blob_path(path) THEN "_translate_blob_storage"
    ELSE IF ~isabs(path) /\ ~HasChar(path, "/") /\ ~HasChar(path, "\\")
         THEN "_translate_by_filename"
         ELSE "_translate_by_full_path"

Entry(h) ==
    CASE h = "_translate_blob_storage" -> "blob_resolve"
      [] h = "_translate_by_filename"  -> "filename_resolve"
      [] OTHER                         -> "full_path_resolve"

_run ==
    /\ pc = "idle"
    /\ \E fp \in FileRefs, tl \in Targets, given \in BOOLEAN :
       \E sl \in (IF given THEN Sources ELSE {default_source_language}),
          out \in (IF given THEN Outputs ELSE {default_output_file_path}),
          ubs \in (IF given THEN BOOLEAN ELSE {default_use_blob_storage}) :
          /\ file_path' = fp
          /\ target_language' = tl
          /\ source_language' = sl
          /\ output_file_path' = out
          /\ use_blob_storage' = ubs
          /\ defaulted' = ~given
          /\ handler' = dispatch(fp, ubs)
          /\ pc' = Entry(dispatch(fp, ubs))
    /\ UNCHANGED <<env, probe, storage, local_files, frame, result, calls, tmp, tmp_count,
                   delivered, cleanup_failed>>

(***************************************************************************)
(* _translate_blob_storage                                                 *)
(***************************************************************************)
\* a return statement inside the try block: the finally block runs next
BlobReturn(message) == result' = message /\ pc' = "blob_finally"

\* Step 1: resolve the input reference
_translate_blob_storage_resolve ==
    /\ pc = "blob_resolve"
    /\ IF is_blob_path(file_path)
       THEN /\ frame' = [frame EXCEPT !.input_blob_path = file_path]
            /\ pc' = "blob_normalize"
            /\ UNCHANGED <<result, calls>>
       ELSE \E lc_ok \in BOOLEAN, lb_ok \in BOOLEAN :
               LET r == find_blob_by_filename(file_path, blob_service_client, storage,
                                              lc_ok, lb_ok)
               IN  /\ calls' = calls \o r.calls
                   /\ IF Falsy(r.found)
                      THEN /\ BlobReturn(_format_error("Blob Not Found", <<file_path>>))
                           /\ UNCHANGED frame
                      ELSE /\ frame' = [frame EXCEPT !.input_blob_path = r.found]
                           /\ pc' = "blob_normalize"
                           /\ UNCHANGED result
    /\ UNCHANGED <<env, probe, req, storage, local_files, tmp, tmp_count, delivered, cleanup_failed>>

\* Step 2: normalize the target language
_translate_blob_storage_normalize ==
    /\ pc = "blob_normalize"
    /\ LET target_lang_code == normalize_language_code(target_language)
       IN  IF Falsy(target_lang_code)
           THEN /\ BlobReturn(_format_error("Invalid target language", <<target_language>>))
                /\ UNCHANGED frame
           ELSE /\ frame' = [frame EXCEPT !.target_lang_code = target_lang_code]
                /\ pc' = "blob_download"
                /\ UNCHANGED result
    /\ UNCHANGED <<env, probe, req, storage, local_files, calls, tmp, tmp_count, delivered,
                   cleanup_failed>>

\* Step 3: download the blob to a temporary file
_translate_blob_storage_download ==
    /\ pc = "blob_download"
    /\ \E dl \in DownloadOutcomes :
          LET r == download_blob_to_temp(frame.input_blob_path, blob_service_client,
                                         storage, dl, tmp_count + 1)
          IN  /\ calls' = calls \o r.calls
              /\ tmp' = tmp \cup r.created
              /\ tmp_count' = tmp_count + Cardinality(r.created)
              /\ CASE r.exc = "FileNotFoundError" ->
                        /\ BlobReturn(_format_error("Blob Not Found", <<frame.input_blob_path>>))
                        /\ UNCHANGED frame
                   [] r.exc = "RuntimeError" ->
                        /\ BlobReturn(_format_error("Blob Storage Error", <<frame.input_blob_path>>))
                        /\ UNCHANGED frame
                   [] OTHER ->
                        /\ frame' = [frame EXCEPT !.temp_input_path = r.temp_path,
                                                  !.original_filename = r.original_filename]
                        /\ pc' = "blob_validate"
                        /\ UNCHANGED result
    /\ UNCHANGED <<env, probe, req, storage, local_files, delivered, cleanup_failed>>

\* Steps 4 and 5: validate the extension, create the temporary output file
_translate_blob_storage_validate ==
    /\ pc = "blob_validate"
    /\ LET file_extension == Lower(splitext(frame.original_filename)[2])
       IN  IF file_extension \notin supported_extensions
           THEN /\ BlobReturn(_format_error("Unsupported File Format",
                                            <<frame.original_filename, file_extension>>))
                /\ UNCHANGED <<frame, tmp, tmp_count>>
           ELSE \E created \in BOOLEAN :
                   IF created
                   THEN /\ frame' = [frame EXCEPT
                                !.temp_output_path = TempName(tmp_count + 1, file_extension)]
                        /\ tmp' = tmp \cup {TempName(tmp_count + 1, file_extension)}
                        /\ tmp_count' = tmp_count + 1
                        /\ pc' = "blob_translate"
                        /\ UNCHANGED result
                   ELSE /\ BlobReturn(_format_error("Unexpected Error", <<>>))
                        /\ UNCHANGED <<frame, tmp, tmp_count>>
    /\ UNCHANGED <<env, probe, req, storage, local_files, calls, delivered, cleanup_failed>>

\* Step 6: translate
_translate_blob_storage_translate ==
    /\ pc = "blob_translate"
    /\ \E c \in PerformCases :
          LET tx == c.tx
              translation_result ==
                  _perform_azure_translation(tx, frame.temp_input_path, frame.target_lang_code,
                                             source_language, frame.temp_output_path)
          IN  /\ calls' = calls \o perform_calls(tx, translate_arguments(frame.target_lang_code,
                                                                         source_language))
              /\ frame' = [frame EXCEPT !.translation_result = translation_result,
                                        !.endpoint = c.endpoint, !.key = c.key]
              /\ IF ~is_success_result(translation_result)
                 THEN BlobReturn(_format_error("Translation Failed", translation_result.text))
                 ELSE pc' = "blob_deliver" /\ UNCHANGED result
    /\ UNCHANGED <<env, probe, req, storage, local_files, tmp, tmp_count, delivered, cleanup_failed>>

\* Step 7: determine the output; a local output is copied here
_translate_blob_storage_deliver ==
    /\ pc = "blob_deliver"
    /\ IF output_file_path # <<>>
       THEN IF is_blob_path(output_file_path)
            THEN /\ frame' = [frame EXCEPT !.output_blob_path = output_file_path]
                 /\ pc' = "blob_upload"
                 /\ UNCHANGED <<result, calls, delivered, local_files>>
            ELSE \E copied \in BOOLEAN :
                    /\ calls' = Append(calls, Call("copy", copied))
                    /\ UNCHANGED frame
                    /\ IF copied
                       THEN /\ delivered' = delivered \cup
                                   {[kind |-> "local", dest |-> output_file_path]}
                            /\ local_files' = local_files \cup {abspath(output_file_path)}
                            /\ BlobReturn(_format_success_mixed(frame.input_blob_path,
                                              output_file_path, frame.target_lang_code, "local"))
                       ELSE /\ BlobReturn(_format_error("Unexpected Error", <<>>))
                            /\ UNCHANGED <<delivered, local_files>>
       ELSE /\ frame' = [frame EXCEPT !.output_blob_path =
                            get_suggested_output_blob_path(frame.input_blob_path,
                                                           frame.target_lang_code)]
            /\ pc' = "blob_upload"
            /\ UNCHANGED <<result, calls, delivered, local_files>>
    /\ UNCHANGED <<env, probe, req, storage, tmp, tmp_count, cleanup_failed>>

\* Step 8: upload the translated file
_translate_blob_storage_upload ==
    /\ pc = "blob_upload"
    /\ \E up \in UploadOutcomes :
          LET r == upload_file_to_blob(frame.output_blob_path, blob_service_client, storage, up)
              p == ParseBlobRef(frame.output_blob_path)
          IN  /\ calls' = calls \o r.calls
              /\ CASE r.exc = "none" ->
                        /\ storage' = PutBlob(storage, p.container, p.blob)
                        /\ delivered' = delivered \cup
                               {[kind |-> "storage", dest |-> frame.output_blob_path]}
                        /\ BlobReturn(_format_success_blob(frame.input_blob_path,
                                          frame.output_blob_path, BlobUrl(p.container, p.blob),
                                          frame.target_lang_code, frame.translation_result))
                   [] r.exc = "RuntimeError" ->
                        /\ BlobReturn(_format_error("Upload Failed", <<>>))
                        /\ UNCHANGED <<storage, delivered>>
                   [] OTHER ->
                        /\ BlobReturn(_format_error("Unexpected Error", <<>>))
                        /\ UNCHANGED <<storage, delivered>>
    /\ UNCHANGED <<env, probe, req, frame, local_files, tmp, tmp_count, cleanup_failed>>

\* the message the caller gets when an unlink of the cleanup raises and the
\* exception is not swallowed: it leaves the finally block and _run reports it
finally_result_unswallowed(message, raised) ==
    IF raised THEN Msg("failure", "Error during translation", <<>>, FALSE) ELSE message

\* the message the caller gets after the finally block: `except: pass`
\* swallows what unlink raises, the pending return value stands
finally_result(message, raised) == message

\* The finally block: unlink the temporary files held in the two variables
_translate_blob_storage_finally ==
    /\ pc = "blob_finally"
    /\ LET held == {t \in {frame.temp_input_path, frame.temp_output_path} :
                       ~Falsy(t) /\ t \in tmp}
       IN  \E failing \in SUBSET held :
              /\ tmp' = tmp \ (held \ failing)
              /\ cleanup_failed' = (failing # {})
              /\ result' = finally_result(result, failing # {})
    /\ pc' = "done"
    /\ UNCHANGED <<env, probe, req, storage, local_files, frame, calls, tmp_count, delivered>>

(***************************************************************************)
(* _translate_by_filename                                                  *)
(***************************************************************************)
\* components of a path as pathlib keeps them: '' and '.' dropped
RECURSIVE PathParts(_, _)
PathParts(p, acc) ==
    IF p = <<>> THEN acc
    ELSE LET cut  == FirstOf(p, {"/"})
             comp == Before(p, cut)
         IN  PathParts(After(p, cut),
                       IF comp = <<>> \/ comp = <<".">> THEN acc ELSE Append(acc, comp))

\* str(Path(p))
PathStr(p) ==
    LET parts == PathParts(p, <<>>)
    IN  IF isabs(p) THEN (IF parts = <<>> THEN <<"/">> ELSE JoinParts(parts))
        ELSE IF parts = <<>> THEN <<".">> ELSE Tail(JoinParts(parts))

\* Steps 1 to 3: find the Documents folder and the file, validate the file
_translate_by_filename_resolve ==
    /\ pc = "filename_resolve"
    /\ LET docs_folder == find_documents_folder(None, valid_dirs)
           found       == _search_file_in_directory(file_path, docs)
       IN  IF Falsy(docs_folder)
           THEN /\ result' = _format_error("Cannot find Documents folder", <<>>)
                /\ pc' = "done"
                /\ UNCHANGED frame
           ELSE IF Falsy(found)
           THEN /\ result' = _format_error("File Not Found", <<file_path, docs_folder>>)
                /\ pc' = "done"
                /\ UNCHANGED frame
           ELSE \E readable \in BOOLEAN :
                   IF Lower(PathSuffix(found)) \notin supported_extensions \/ ~readable
                   THEN /\ result' = _format_error("File validation failed",
                                                   <<PathJoin(docs_folder, found)>>)
                        /\ pc' = "done"
                        /\ UNCHANGED frame
                   ELSE /\ frame' = [frame EXCEPT !.input_path = PathJoin(docs_folder, found)]
                        /\ pc' = "filename_translate"
                        /\ UNCHANGED result
    /\ UNCHANGED <<env, probe, req, storage, local_files, calls, tmp, tmp_count, delivered,
                   cleanup_failed>>

\* Steps 4 to 7: normalize the language, choose the output, translate, report
_translate_by_filename_translate ==
    /\ pc = "filename_translate"
    /\ pc' = "done"
    /\ LET target_lang_code == normalize_language_code(target_language)
           output_path == IF output_file_path = <<>>
                          THEN get_suggested_output_path(frame.input_path, target_lang_code)
                          ELSE PathStr(output_file_path)
       IN  IF Falsy(target_lang_code)
           THEN /\ result' = _format_error("Invalid target language", <<target_language>>)
                /\ UNCHANGED <<frame, calls, delivered, local_files>>
           ELSE \E c \in PerformCases :
                   LET tx == c.tx
                       r  == _perform_azure_translation(tx, frame.input_path, target_lang_code,
                                                        source_language, output_path)
                   IN  /\ frame' = [frame EXCEPT !.target_lang_code = target_lang_code,
                                                 !.output_path = output_path,
                                                 !.translation_result = r,
                                                 !.endpoint = c.endpoint, !.key = c.key]
                       /\ calls' = calls \o perform_calls(tx, translate_arguments(target_lang_code,
                                                                                  source_language))
                       /\ delivered' = IF tx = "ok"
                                       THEN delivered \cup {[kind |-> "local", dest |-> output_path]}
                                       ELSE delivered
                       /\ local_files' = IF tx = "ok"
                                         THEN local_files \cup {abspath(output_path)}
                                         ELSE local_files
                       /\ result' = IF is_success_result(r)
                                    THEN _format_success(frame.input_path, output_path,
                                                         target_lang_code, r)
                                    ELSE _format_error("Translation failed", r.text)
    /\ UNCHANGED <<env, probe, req, storage, tmp, tmp_count, cleanup_failed>>

(***************************************************************************)
(* _translate_by_full_path                                                 *)
(***************************************************************************)
\* make the path absolute, check the file, the format and the language,
\* choose the output
_translate_by_full_path_resolve ==
    /\ pc = "full_path_resolve"
    /\ LET path == IF ~isabs(file_path) THEN abspath(file_path) ELSE file_path
           file_extension   == Lower(splitext(path)[2])
           target_lang_code == normalize_language_code(target_language)
           parts            == splitext(path)
           output           == IF output_file_path = <<>>
                               THEN parts[1] \o <<"_">> \o target_lang_code \o parts[2]
                               ELSE output_file_path
       IN  IF path \notin local_files
           THEN /\ result' = Msg("failure", "Error: Document file not found at path",
                                 <<path>>, FALSE)
                /\ pc' = "done"
                /\ UNCHANGED frame
           ELSE IF file_extension \notin supported_extensions
           THEN /\ result' = Msg("failure", "Error: Unsupported file format",
                                 <<file_extension>>, FALSE)
                /\ pc' = "done"
                /\ UNCHANGED frame
           ELSE IF Falsy(target_lang_code)
           THEN /\ result' = Msg("failure", "Error: Invalid target language",
                                 <<target_language>>, FALSE)
                /\ pc' = "done"
                /\ UNCHANGED frame
           ELSE /\ frame' = [frame EXCEPT !.input_path = path,
                                          !.target_lang_code = target_lang_code,
                                          !.output_path = output]
                /\ pc' = "full_path_translate"
                /\ UNCHANGED result
    /\ UNCHANGED <<env, probe, req, storage, local_files, calls, tmp, tmp_count, delivered,
                   cleanup_failed>>

\* translate; the message of _perform_azure_translation is returned as it is
_translate_by_full_path_translate ==
    /\ pc = "full_path_translate"
    /\ pc' = "done"
    /\ \E c \in PerformCases :
          LET tx == c.tx
              r  == _perform_azure_translation(tx, frame.input_path, frame.target_lang_code,
                                               source_language, frame.output_path)
          IN  /\ frame' = [frame EXCEPT !.translation_result = r,
                                        !.endpoint = c.endpoint, !.key = c.key]
              /\ calls' = calls \o perform_calls(tx, translate_arguments(frame.target_lang_code,
                                                                         source_language))
              /\ delivered' = IF tx = "ok"
                              THEN delivered \cup {[kind |-> "local", dest |-> frame.output_path]}
                              ELSE delivered
              /\ local_files' = IF tx = "ok"
                                THEN local_files \cup {abspath(frame.output_path)}
                                ELSE local_files
              /\ result' = r
    /\ UNCHANGED <<env, probe, req, storage, tmp, tmp_count, cleanup_failed>>

(***************************************************************************)
(* The specification: one request on a freshly constructed tool.           *)
(***************************************************************************)
Next ==
    \/ _run
    \/ _translate_blob_storage_resolve
    \/ _translate_blob_storage_normalize
    \/ _translate_blob_storage_download
    \/ _translate_blob_storage_validate
    \/ _translate_blob_storage_translate
    \/ _translate_blob_storage_deliver
    \/ _translate_blob_storage_upload
    \/ _translate_blob_storage_finally
    \/ _translate_by_filename_resolve
    \/ _translate_by_filename_translate
    \/ _translate_by_full_path_resolve
    \/ _translate_by_full_path_translate

Spec == Init /\ [][Next]_vars

(***************************************************************************)
(* The reference classifier on its own: _run's dispatch applied to every   *)
(* short string over the characters the rules look at, and to URL-like     *)
(* strings.                                                                *)
(***************************************************************************)
MaxRefLen == 4
RefAlphabet == {"/", ".", "\\", "a"}
s_http == <<"h","t","t","p",":","/","/">>
RefStrings ==
    UNION {[1..n -> RefAlphabet] : n \in 0..MaxRefLen}
    \cup FileRefs
    \cup {pre \o mid \o suf :
            pre \in {s_https, s_http, <<>>},
            mid \in {<<>>, <<"a">>},
            suf \in {s_blob_domain, s_blob_domain \o <<"/","a","/","a">>,
                     <<".","c","o","m","/","a">>}}

\* the kind of reference a string is handled as by handler h: the
\* storage handler parses it as a URL or as a container/key path
reference_kind(path, h) ==
    CASE h = "_translate_blob_storage" ->
            IF IsBlobUrl(path) THEN "StorageURL" ELSE "StoragePath"
      [] h = "_translate_by_filename"  -> "BareFilename"
      [] OTHER                         -> "LocalPath"

\* _run with use_blob_storage=False, up to the dispatch
classify ==
    /\ pc = "idle"
    /\ \E fp \in RefStrings :
          /\ file_path' = fp
          /\ handler' = dispatch(fp, FALSE)
    /\ pc' = "classified"
    /\ UNCHANGED <<env, probe, storage, local_files, target_language, source_language,
                   output_file_path, use_blob_storage, defaulted, frame, result, calls,
                   tmp, tmp_count, delivered, cleanup_failed>>

SpecClassify == Init /\ [][classify]_vars

(***************************************************************************)
(* The helpers called on their own: arg holds the arguments, ret what the  *)
(* helper returned, handler its name.                                      *)
(***************************************************************************)
outside_helper ==
    <<env, storage, local_files, file_path, target_language, source_language,
      output_file_path, use_blob_storage, defaulted, frame, result, calls, tmp,
      tmp_count, delivered, cleanup_failed, requests, contents>>

\* before the call: the arguments are any of Args, no request is running
HelperInit(Args) ==
    /\ arg \in Args /\ ret = None /\ requests = <<>> /\ contents = <<>>
    /\ blob_service_client = TRUE /\ storage = <<>>
    /\ valid_dirs = {} /\ docs = <<>> /\ local_files = {}
    /\ file_path = <<>> /\ target_language = <<>> /\ source_language = <<>>
    /\ output_file_path = <<>> /\ use_blob_storage = FALSE /\ defaulted = FALSE
    /\ handler = "none" /\ frame = NoFrame /\ pc = "idle" /\ result = NoResult
    /\ calls = <<>> /\ tmp = {} /\ tmp_count = 0 /\ delivered = {} /\ cleanup_failed = FALSE

\* helper h returns value
Return(h, value) ==
    /\ pc' = "returned" /\ handler' = h /\ ret' = value
    /\ UNCHANGED <<arg, outside_helper>>

(***************************************************************************)
(* find_file on a directory listing.                                       *)
(***************************************************************************)
f_report_pdf     == <<"r","e","p","o","r","t",".","p","d","f">>
f_Report_PDF     == <<"R","e","p","o","r","t",".","P","D","F">>
f_report_docx    == <<"r","e","p","o","r","t",".","d","o","c","x">>
f_annual_report  == <<"a","n","n","u","a","l","_","r","e","p","o","r","t",".","p","d","f">>
f_reporting_doc  == <<"r","e","p","o","r","t","i","n","g",".","d","o","c">>
f_invoice_docx   == <<"i","n","v","o","i","c","e",".","d","o","c","x">>
f_port_txt       == <<"p","o","r","t",".","t","x","t">>
f_re_pdf         == <<"r","e",".","p","d","f">>
n_Report         == <<"R","e","p","o","r","t">>
n_invoice        == <<"i","n","v","o","i","c","e">>
n_port_doc       == <<"p","o","r","t",".","d","o","c">>
n_annual_reports == <<"a","n","n","u","a","l","_","r","e","p","o","r","t","s",".","p","d","f">>
n_re             == <<"r","e">>

\* the files a directory may hold, the names a caller may ask for
DirNames == {f_report_pdf, f_Report_PDF, f_report_docx, f_annual_report, f_reporting_doc,
             f_invoice_docx, f_port_txt, f_re_pdf}
SearchNames == {f_report_pdf, n_Report, n_invoice, n_port_doc, n_annual_reports, n_re}

MaxListing == 3

\* the orders in which iterdir() may yield up to MaxListing files
Listings ==
    {l \in UNION {[1..n -> DirNames] : n \in 0..MaxListing} :
        \A i, j \in 1..Len(l) : i # j => l[i] # l[j]}

FindFileArgs == [filename : SearchNames, listing : Listings]

\* find_file(filename, documents_folder) with the folder given
find_file ==
    /\ pc = "idle"
    /\ Return("find_file", _search_file_in_directory(arg.filename, arg.listing))

\* _find_partial_match(search_name, directory), search_name lower-cased as
\* _search_file_in_directory passes it
find_partial_match ==
    /\ pc = "idle"
    /\ Return("_find_partial_match", _find_partial_match(Lower(arg.filename), arg.listing))

NextFindFile == find_file \/ find_partial_match

SpecFindFile == HelperInit(FindFileArgs) /\ [][NextFindFile]_vars

(***************************************************************************)
(* parse_blob_path and parse_blob_url on a reference.                      *)
(***************************************************************************)
\* what follows the host in a storage URL
UrlTails == {<<>>, <<"/">>, <<"/","c">>, <<"/","c","/">>, <<"/","c","/","k">>, <<"/","c","/","d","/","k",".","p","d","f">>, <<"/","/","k">>}

\* the references parsed: short strings, and storage URLs
ParseArgs ==
    UNION {[1..n -> RefAlphabet] : n \in 0..MaxRefLen}
    \cup {s_https \o host \o s_blob_domain \o tail : host \in {<<>>, <<"a","c","c","t">>}, tail \in UrlTails}

\* parse_blob_path(blob_path)
call_parse_blob_path ==
    /\ pc = "idle"
    /\ Return("parse_blob_path", parse_blob_path(arg))

\* parse_blob_url(blob_url), called as download and upload call it: on a
\* reference that passed the storage-URL test
call_parse_blob_url ==
    /\ pc = "idle" /\ IsBlobUrl(arg)
    /\ Return("parse_blob_url", parse_blob_url(arg))

NextParse == call_parse_blob_path \/ call_parse_blob_url

SpecParse == HelperInit(ParseArgs) /\ [][NextParse]_vars

(***************************************************************************)
(* find_blob_by_filename on a storage account.                             *)
(***************************************************************************)
c_backup == <<"b","a","c","k","u","p">>
c_temp   == <<"t","e","m","p">>
c_logs   == <<"l","o","g","s">>
b_report_docx   == <<"r","e","p","o","r","t",".","d","o","c","x">>
b_dir_Report    == <<"d","i","r","/","R","e","p","o","r","t",".","P","D","F">>
b_annual_report == <<"a","n","n","u","a","l","_","r","e","p","o","r","t",".","p","d","f">>
b_dir_summary   == <<"d","i","r","/","s","u","m","m","a","r","y",".","p","d","f">>
n_annual        == <<"a","n","n","u","a","l">>
n_Summary       == <<"S","u","m","m","a","r","y">>

\* the containers of an account in list_containers() order
ContainerLists ==
    { <<>>,
      <<c_archive>>,
      <<c_input, c_documents>>,
      <<c_archive, c_files, c_mycontainer>>,
      <<c_archive, c_mycontainer, c_outcontainer, c_backup, c_temp, c_logs>> }

\* the blobs of a container in list_blobs() order
BlobLists == {<<>>, <<b_report_docx, b_dir_Report>>, <<b_annual_report, b_dir_summary>>}

\* the accounts: every container list with every choice of blobs
Accounts ==
    UNION {{[i \in 1..Len(names) |-> [name |-> names[i], blobs |-> bl[i]]] :
               bl \in [1..Len(names) -> BlobLists]} : names \in ContainerLists}

FindBlobArgs == [filename : {f_report_pdf, n_Summary, n_annual}, account : Accounts]

\* find_blob_by_filename(filename) with a client; list_containers and
\* list_blobs return or raise
call_find_blob_by_filename ==
    /\ pc = "idle"
    /\ \E lc_ok \in BOOLEAN, lb_ok \in BOOLEAN :
          Return("find_blob_by_filename",
                 find_blob_by_filename(arg.filename, TRUE, arg.account, lc_ok, lb_ok))

SpecFindBlob == HelperInit(FindBlobArgs) /\ [][call_find_blob_by_filename]_vars

(***************************************************************************)
(* normalize_language_code on a text.                                      *)
(***************************************************************************)
MaxLangLen == 3
LangAlphabet == {"e", "S", " ", "1"}

\* the texts normalized: short strings, the names and codes of the table,
\* and some words
LangArgs ==
    UNION {[1..n -> LangAlphabet] : n \in 0..MaxLangLen}
    \cup {e[1] : e \in language_codes} \cup {e[2] : e \in language_codes}
    \cup {<<"s","p","a","n","i","s","h">>, <<"f","r","e","n","c","h">>, <<"G","E","R","M","A","N">>, <<" ","S","p","a","n","i","s","h"," ">>, <<" ","F","R"," ">>, <<"i","n","v","a","l","i","d">>, <<"x","y","z">>, <<"k","l","i","n","g","o","n">>,
          <<"a","b","c","d">>, <<"e","n">>, <<"z","h","-","H","a","n","s">>, <<"s","p","a","n"," ","i","s","h">>}

\* normalize_language_code(language)
call_normalize_language_code ==
    /\ pc = "idle"
    /\ Return("normalize_language_code", normalize_language_code(arg))

SpecNormalize == HelperInit(LangArgs) /\ [][call_normalize_language_code]_vars

(***************************************************************************)
(* The auditiq package: DocumentTranslationTool._run and                   *)
(* SimpleTranslationHelper.translate_document, the two other entry points  *)
(* that reach the translation backend.  Each is one call on the same       *)
(* world as _run.                                                          *)
(***************************************************************************)
\* the formats DocumentTranslationTool._run accepts
supported_formats == {s_pdf, s_docx, s_doc}

\* translate_params without "body": the keyword arguments of client.translate
translate_params(target, source) ==
    IF source # s_auto
    THEN [target_language |-> target, source_language |-> source]
    ELSE [target_language |-> target]

\* DocumentTranslationTool._run: the message it returns, the calls it
\* makes, the output path it chose and whether it wrote the output.
\* cloud is what is_cloud_environment() finds, c the credentials it reads
\* and what happens after them, files the local files that exist
DocumentTranslationTool_run(cloud, c, path_given, target, source, output_given, files) ==
    LET path           == IF ~isabs(path_given) THEN abspath(path_given) ELSE path_given
        file_extension == Lower(splitext(path)[2])
        parts          == splitext(path)
        output         == IF output_given = <<>>
                          THEN parts[1] \o <<"_">> \o target \o parts[2]
                          ELSE output_given
        Out(message, made) ==
            [result |-> message, calls |-> made, input_path |-> path,
             output_file_path |-> output, written |-> (message.kind = "success")]
    IN  IF cloud
        THEN Out(Msg("failure", "Document translation is not available in cloud deployment",
                     <<>>, FALSE), <<>>)
        ELSE IF credentials_missing(c.endpoint, c.key)
        THEN Out(Msg("failure", "Error: Azure Document Translation credentials not configured",
                     <<>>, FALSE), <<>>)
        ELSE IF path \notin files
        THEN Out(Msg("failure", "Error: Document file not found at path", <<path>>, FALSE), <<>>)
        ELSE IF file_extension \notin supported_formats
        THEN Out(Msg("failure", "Error: Unsupported file format", <<file_extension>>, FALSE),
                 <<>>)
        ELSE Out(_perform_azure_translation(c.tx, path, target, source, output),
                 perform_calls(c.tx, translate_params(target, source)))

\* the names a caller may pass to translate_document
FileNames == {r \in FileRefs : ~HasChar(r, "/")}

\* DocumentTranslationTool._run called by the agent
DocumentTranslationTool_call ==
    /\ pc = "idle"
    /\ pc' = "done"
    /\ handler' = "DocumentTranslationTool._run"
    /\ \E fp \in FileRefs, tl \in Targets, sl \in Sources, out \in Outputs,
          cloud \in BOOLEAN, c \in PerformCases :
          LET r == DocumentTranslationTool_run(cloud, c, fp, tl, sl, out, local_files)
          IN  /\ file_path' = fp
              /\ target_language' = tl
              /\ source_language' = sl
              /\ output_file_path' = out
              /\ frame' = [frame EXCEPT !.input_path = r.input_path,
                                        !.output_path = r.output_file_path,
                                        !.translation_result = r.result,
                                        !.endpoint = c.endpoint, !.key = c.key]
              /\ calls' = calls \o r.calls
              /\ delivered' = IF r.written
                              THEN delivered \cup {[kind |-> "local", dest |-> r.output_file_path]}
                              ELSE delivered
              /\ local_files' = IF r.written
                                THEN local_files \cup {abspath(r.output_file_path)}
                                ELSE local_files
              /\ result' = r.result
    /\ UNCHANGED <<env, probe, storage, use_blob_storage, defaulted, tmp, tmp_count,
                   cleanup_failed>>

\* SimpleTranslationHelper.translate_document of the auditiq package: find
\* the Documents folder and the file, validate it, normalize the language,
\* choose the output, call DocumentTranslationTool._run, report
translate_document ==
    /\ pc = "idle"
    /\ pc' = "done"
    /\ handler' = "translate_document"
    /\ \E fn \in FileNames, tl \in Targets, sl \in Sources, readable \in BOOLEAN,
          cloud \in BOOLEAN, c \in PerformCases :
          LET docs_folder      == find_documents_folder(None, valid_dirs)
              found            == _search_file_in_directory(fn, docs)
              path             == PathJoin(docs_folder, found)
              target_lang_code == normalize_language_code(tl)
              output_path      == get_suggested_output_path(path, target_lang_code)
              r == DocumentTranslationTool_run(cloud, c, path, target_lang_code, sl,
                                               output_path, local_files \cup {path})
          IN  /\ file_path' = fn
              /\ target_language' = tl
              /\ source_language' = sl
              /\ output_file_path' = <<>>
              /\ IF Falsy(docs_folder)
                 THEN /\ result' = _format_error("Cannot find Documents folder", <<>>)
                      /\ UNCHANGED <<frame, calls, delivered, local_files>>
                 ELSE IF Falsy(found)
                 THEN /\ result' = _format_error("File Not Found", <<fn, docs_folder>>)
                      /\ UNCHANGED <<frame, calls, delivered, local_files>>
                 ELSE IF Lower(PathSuffix(found)) \notin supported_extensions \/ ~readable
                 THEN /\ result' = _format_error("File validation failed", <<path>>)
                      /\ UNCHANGED <<frame, calls, delivered, local_files>>
                 ELSE IF Falsy(target_lang_code)
                 THEN /\ result' = _format_error("Invalid target language", <<tl>>)
                      /\ UNCHANGED <<frame, calls, delivered, local_files>>
                 ELSE /\ frame' = [frame EXCEPT !.input_path = path,
                                                !.target_lang_code = target_lang_code,
                                                !.output_path = output_path,
                                                !.translation_result = r.result,
                                                !.endpoint = c.endpoint, !.key = c.key]
                      /\ calls' = calls \o r.calls
                      /\ delivered' = IF r.written
                                      THEN delivered \cup
                                               {[kind |-> "local", dest |-> output_path]}
                                      ELSE delivered
                      /\ local_files' = IF r.written
                                        THEN local_files \cup {abspath(output_path)}
                                        ELSE local_files
                      /\ result' = IF is_success_result(r.result)
                                   THEN _format_success(path, output_path, target_lang_code,
                                                        r.result)
                                   ELSE _format_error("Translation failed", r.result.text)
    /\ UNCHANGED <<env, probe, storage, use_blob_storage, defaulted, tmp, tmp_count,
                   cleanup_failed>>

\* the three entry points
NextEntryPoints ==
    \/ Next
    \/ DocumentTranslationTool_call
    \/ translate_document

SpecEntryPoints == Init /\ [][NextEntryPoints]_vars

(***************************************************************************)
(* AuditIqDocumentTranslator._get_content_type on its own.                 *)
(***************************************************************************)
s_txt  == <<".","t","x","t">>
s_html == <<".","h","t","m","l">>
s_htm  == <<".","h","t","m">>

\* content_type_mapping
content_type_mapping ==
    { <<s_pdf,  "application/pdf">>,
      <<s_docx, "application/vnd.openxmlformats-officedocument.wordprocessingml.document">>,
      <<s_doc,  "application/msword">>,
      <<s_html, "text/html">>,
      <<s_htm,  "text/html">>,
      <<s_txt,  "text/plain">> }

\* _get_content_type: exc is the exception it raises ("none": it returns
\* content_type)
_get_content_type(name) ==
    LET file_extension == Lower(splitext(name)[2])
        content_type ==
            IF \E e \in content_type_mapping : e[1] = file_extension
            THEN (CHOOSE e \in content_type_mapping : e[1] = file_extension)[2]
            ELSE "application/octet-stream"
    IN  IF content_type = "application/octet-stream"
        THEN [exc |-> "ValueError", content_type |-> "none"]
        ELSE [exc |-> "none", content_type |-> content_type]

\* the file names it is called with: a stem and an extension
ContentTypeStems ==
    {<<"r","e","p","o","r","t">>, <<"R","e","p","o","r","t",".","f","i","n","a","l">>, <<"/","d","o","c","s","/","a">>, <<"/","t","m","p","/","t","m","p","1">>, <<"d","i","r",".","d","/","x">>, <<".","h","i","d","d","e","n">>, <<"a"," ","b">>}
ContentTypeExts ==
    {<<>>, s_pdf, s_docx, s_doc, s_txt, s_html, s_htm, <<".","P","D","F">>, <<".","D","o","c","x">>, <<".","x","y","z">>, <<".","u","n","k","n","o","w","n">>,
     <<".","p","d","f","2">>, <<".">>}
ContentTypeArgs == {stem \o ext : stem \in ContentTypeStems, ext \in ContentTypeExts}

call_get_content_type ==
    /\ pc = "idle"
    /\ Return("_get_content_type", _get_content_type(arg))

SpecContentType == HelperInit(ContentTypeArgs) /\ [][call_get_content_type]_vars

(***************************************************************************)
(* find_documents_folder while directories appear and disappear.  arg      *)
(* holds the environment of the process (DOCUMENTS_FOLDER_PATH and USER),  *)
(* valid_dirs the directories that exist and are readable; pc is           *)
(* "returned" as long as nothing changed since the last call.              *)
(***************************************************************************)
d_custom      == <<"/","c","u","s","t","o","m","/","d","o","c","s">>
d_cwd_docs    == PathJoin(Cwd, s_Documents)
d_parent_docs == PathJoin(dirname(Cwd), s_Documents)
d_legacy      == <<"/","h","o","m","e","/","u","/","D","o","c","u","m","e","n","t","s">>

\* the values of DOCUMENTS_FOLDER_PATH and of USER
EnvPaths  == {None, <<>>, d_custom, d_home_docs}
UserNames == {None, <<"u">>}
FolderArgs == [env_path : EnvPaths, username : UserNames]

\* the directories that may exist
FolderDirs == {d_custom, d_cwd_docs, d_parent_docs, d_home_docs, d_legacy}

directory_appears ==
    /\ \E d \in FolderDirs \ valid_dirs : valid_dirs' = valid_dirs \cup {d}
    /\ pc' = "idle"
    /\ UNCHANGED <<probe, handler, blob_service_client, docs, storage, local_files, req_args,
                   frame, result, calls, tmp, tmp_count, delivered, cleanup_failed>>

directory_disappears ==
    /\ \E d \in valid_dirs : valid_dirs' = valid_dirs \ {d}
    /\ pc' = "idle"
    /\ UNCHANGED <<probe, handler, blob_service_client, docs, storage, local_files, req_args,
                   frame, result, calls, tmp, tmp_count, delivered, cleanup_failed>>

call_find_documents_folder ==
    /\ pc \in {"idle", "returned"}
    /\ Return("find_documents_folder",
              find_documents_folder_in(get_documents_folders_linux(arg.env_path, arg.username),
                                       valid_dirs))

NextFolders ==
    \/ directory_appears
    \/ directory_disappears
    \/ call_find_documents_folder

SpecFolders == HelperInit(FolderArgs) /\ [][NextFolders]_vars

(***************************************************************************)
(* Two invocations of _translate_blob_storage running concurrently on one  *)
(* tool instance.  requests[r] holds the arguments and the local variables *)
(* of invocation r, contents what each temporary file on the disk holds;   *)
(* storage and the local disk are shared.  A step is one statement of the  *)
(* handler that touches the disk or the storage, with the local            *)
(* computation before it.                                                  *)
(***************************************************************************)
Requests == {1, 2}

\* the names NamedTemporaryFile may draw
TempIds == {1, 2, 3, 4}

r_blob_es == <<"m","y","c","o","n","t","a","i","n","e","r","/","r","e","p","o","r","t","_","e","s",".","p","d","f">>

\* what the two callers may pass
ConcurrentSources == {r_blob_path, r_report, r_blob_es}
ConcurrentOutputs == {<<>>, o_blob_path, o_local_abs}

\* what may happen in the download, the translation and the upload
ConcurrentDl == {"ok", "download_error"}
ConcurrentTx == {"ok", "translate_error"}
ConcurrentUp == {"ok", "azure_error"}

\* the storage before the requests
Storage0 ==
    << [name |-> c_documents,    blobs |-> <<r_report>>],
       [name |-> c_mycontainer,  blobs |-> <<r_report, <<"n","o","t","e","s",".","t","x","t">>>>],
       [name |-> c_outcontainer, blobs |-> <<>>] >>

\* what a file holds: the object it was read from, translated or not
NoContent == [src |-> None, translated |-> FALSE]
NoOutput  == [dest |-> None, content |-> NoContent]

\* the locals of _translate_blob_storage on entry
NewRequest(path, output) ==
    [file_path |-> path, target_language |-> l_es, source_language |-> s_auto,
     output_file_path |-> output, pc |-> "blob_resolve",
     input_blob_path |-> None, target_lang_code |-> None, temp_input_path |-> None,
     original_filename |-> None, temp_output_path |-> None, output_blob_path |-> None,
     translation_result |-> NoResult, dl |-> "unset", tx |-> "unset", up |-> "unset",
     live |-> {}, result |-> NoResult, output |-> NoOutput]

InitConcurrent ==
    /\ \E f1 \in ConcurrentSources, f2 \in ConcurrentSources,
          o1 \in ConcurrentOutputs, o2 \in ConcurrentOutputs :
          /\ f1 # f2
          /\ o1 # o2 \/ o1 = <<>>
          /\ requests = <<NewRequest(f1, o1), NewRequest(f2, o2)>>
    /\ contents = <<>>
    /\ arg = None /\ ret = None
    /\ blob_service_client = TRUE /\ storage = Storage0
    /\ valid_dirs = {} /\ docs = <<>> /\ local_files = {}
    /\ file_path = <<>> /\ target_language = <<>> /\ source_language = <<>>
    /\ output_file_path = <<>> /\ use_blob_storage = TRUE /\ defaulted = FALSE
    /\ handler = "_translate_blob_storage" /\ frame = NoFrame /\ pc = "concurrent"
    /\ result = NoResult
    /\ calls = <<>> /\ tmp = {} /\ tmp_count = 0 /\ delivered = {} /\ cleanup_failed = FALSE

\* what the concurrent invocations leave alone
outside_requests ==
    <<env, arg, ret, req, frame, pc, result, calls, tmp, tmp_count, delivered, cleanup_failed>>

\* the locals of invocation r with temp_output_path kept on the tool
\* instance, where the first invocation's value is the one every invocation
\* reads
locals_shared(reqs, r) == [reqs[r] EXCEPT !.temp_output_path = reqs[1].temp_output_path]

\* the locals of invocation r: each call of the method has its own
locals(reqs, r) == reqs[r]

\* a temporary file created whatever exists
temp_name_any(name, existing) == TRUE

\* NamedTemporaryFile creates the file under a name no existing file has
temp_name_free(name, existing) == name \notin existing

\* the files with `names` now hold `content`
Put(files, names, content) ==
    [p \in DOMAIN files \cup names |-> IF p \in names THEN content ELSE files[p]]

\* the files with `names` are gone
Drop(files, names) == [p \in DOMAIN files \ names |-> files[p]]

\* Steps 1 and 2: resolve the reference, normalize the target language
concurrent_resolve ==
    /\ \E r \in Requests :
          LET rq    == locals(requests, r)
              found == find_blob_by_filename(rq.file_path, blob_service_client, storage,
                                             TRUE, TRUE).found
              input == IF is_blob_path(rq.file_path) THEN rq.file_path ELSE found
              code  == normalize_language_code(rq.target_language)
          IN  /\ rq.pc = "blob_resolve"
              /\ requests' = [requests EXCEPT ![r] =
                    IF Falsy(input)
                    THEN [rq EXCEPT !.result = _format_error("Blob Not Found", <<rq.file_path>>),
                                    !.pc = "blob_finally"]
                    ELSE IF Falsy(code)
                    THEN [rq EXCEPT !.input_blob_path = input,
                                    !.result = _format_error("Invalid target language",
                                                             <<rq.target_language>>),
                                    !.pc = "blob_finally"]
                    ELSE [rq EXCEPT !.input_blob_path = input, !.target_lang_code = code,
                                    !.pc = "blob_download"]]
    /\ UNCHANGED <<outside_requests, contents, storage, local_files>>

\* Step 3: download the blob to a temporary file
concurrent_download ==
    /\ \E r \in Requests, dl \in ConcurrentDl, n \in TempIds :
          LET rq == locals(requests, r)
              d  == download_blob_to_temp(rq.input_blob_path, blob_service_client, storage,
                                          dl, n)
          IN  /\ rq.pc = "blob_download"
              /\ \A t \in d.created : temp_name_free(t, DOMAIN contents)
              /\ contents' = Put(contents, d.created,
                                 IF d.exc = "none"
                                 THEN [src |-> rq.input_blob_path, translated |-> FALSE]
                                 ELSE NoContent)
              /\ requests' = [requests EXCEPT ![r] =
                    CASE d.exc = "FileNotFoundError" ->
                            [rq EXCEPT !.dl = dl, !.live = @ \cup d.created,
                                       !.result = _format_error("Blob Not Found",
                                                                <<rq.input_blob_path>>),
                                       !.pc = "blob_finally"]
                      [] d.exc = "RuntimeError" ->
                            [rq EXCEPT !.dl = dl, !.live = @ \cup d.created,
                                       !.result = _format_error("Blob Storage Error",
                                                                <<rq.input_blob_path>>),
                                       !.pc = "blob_finally"]
                      [] OTHER ->
                            [rq EXCEPT !.dl = dl, !.live = @ \cup d.created,
                                       !.temp_input_path = d.temp_path,
                                       !.original_filename = d.original_filename,
                                       !.pc = "blob_validate"]]
    /\ UNCHANGED <<outside_requests, storage, local_files>>

\* Steps 4 and 5: validate the extension, create the temporary output file
concurrent_validate ==
    /\ \E r \in Requests, n \in TempIds :
          LET rq             == locals(requests, r)
              file_extension == Lower(splitext(rq.original_filename)[2])
              temp_output    == TempName(n, file_extension)
          IN  /\ rq.pc = "blob_validate"
              /\ IF file_extension \notin supported_extensions
                 THEN /\ requests' = [requests EXCEPT ![r] =
                            [rq EXCEPT !.result = _format_error("Unsupported File Format",
                                                     <<rq.original_filename, file_extension>>),
                                       !.pc = "blob_finally"]]
                      /\ UNCHANGED contents
                 ELSE /\ temp_name_free(temp_output, DOMAIN contents)
                      /\ contents' = Put(contents, {temp_output}, NoContent)
                      /\ requests' = [requests EXCEPT ![r] =
                            [rq EXCEPT !.temp_output_path = temp_output,
                                       !.live = @ \cup {temp_output},
                                       !.pc = "blob_translate"]]
    /\ UNCHANGED <<outside_requests, storage, local_files>>

\* Step 6: translate the temporary input into the temporary output
concurrent_translate ==
    /\ \E r \in Requests, chosen \in ConcurrentTx :
          LET rq  == locals(requests, r)
              tx  == IF rq.temp_input_path \in DOMAIN contents THEN chosen ELSE "read_not_found"
              translation_result ==
                  _perform_azure_translation(tx, rq.temp_input_path, rq.target_lang_code,
                                             rq.source_language, rq.temp_output_path)
          IN  /\ rq.pc = "blob_translate"
              /\ contents' = IF tx = "ok"
                             THEN Put(contents, {rq.temp_output_path},
                                      [src |-> contents[rq.temp_input_path].src,
                                       translated |-> TRUE])
                             ELSE contents
              /\ requests' = [requests EXCEPT ![r] =
                    IF ~is_success_result(translation_result)
                    THEN [rq EXCEPT !.tx = tx, !.translation_result = translation_result,
                                    !.result = _format_error("Translation Failed",
                                                             translation_result.text),
                                    !.pc = "blob_finally"]
                    ELSE [rq EXCEPT !.tx = tx, !.translation_result = translation_result,
                                    !.pc = "blob_deliver"]]
    /\ UNCHANGED <<outside_requests, storage, local_files>>

\* Step 7: determine the output; a local output is copied here
concurrent_deliver ==
    /\ \E r \in Requests :
          LET rq == locals(requests, r)
          IN  /\ rq.pc = "blob_deliver"
              /\ IF rq.output_file_path # <<>> /\ ~is_blob_path(rq.output_file_path)
                 THEN IF rq.temp_output_path \in DOMAIN contents
                      THEN /\ local_files' = local_files \cup {abspath(rq.output_file_path)}
                           /\ requests' = [requests EXCEPT ![r] =
                                 [rq EXCEPT !.output = [dest |-> rq.output_file_path,
                                                        content |-> contents[rq.temp_output_path]],
                                            !.result = _format_success_mixed(rq.input_blob_path,
                                                           rq.output_file_path,
                                                           rq.target_lang_code, "local"),
                                            !.pc = "blob_finally"]]
                      ELSE /\ requests' = [requests EXCEPT ![r] =
                                 [rq EXCEPT !.result = _format_error("Unexpected Error", <<>>),
                                            !.pc = "blob_finally"]]
                           /\ UNCHANGED local_files
                 ELSE /\ requests' = [requests EXCEPT ![r] =
                            [rq EXCEPT !.output_blob_path =
                                           IF rq.output_file_path # <<>>
                                           THEN rq.output_file_path
                                           ELSE get_suggested_output_blob_path(
                                                    rq.input_blob_path, rq.target_lang_code),
                                       !.pc = "blob_upload"]]
                      /\ UNCHANGED local_files
    /\ UNCHANGED <<outside_requests, contents, storage>>

\* Step 8: upload the temporary output
concurrent_upload ==
    /\ \E r \in Requests, chosen \in ConcurrentUp :
          LET rq == locals(requests, r)
              up == IF rq.temp_output_path \in DOMAIN contents THEN chosen ELSE "local_missing"
              u  == upload_file_to_blob(rq.output_blob_path, blob_service_client, storage, up)
              p  == ParseBlobRef(rq.output_blob_path)
          IN  /\ rq.pc = "blob_upload"
              /\ CASE u.exc = "none" ->
                        /\ storage' = PutBlob(storage, p.container, p.blob)
                        /\ requests' = [requests EXCEPT ![r] =
                              [rq EXCEPT !.up = up,
                                         !.output = [dest |-> rq.output_blob_path,
                                                     content |-> contents[rq.temp_output_path]],
                                         !.result = _format_success_blob(rq.input_blob_path,
                                                        rq.output_blob_path,
                                                        BlobUrl(p.container, p.blob),
                                                        rq.target_lang_code,
                                                        rq.translation_result),
                                         !.pc = "blob_finally"]]
                   [] u.exc = "RuntimeError" ->
                        /\ requests' = [requests EXCEPT ![r] =
                              [rq EXCEPT !.up = up,
                                         !.result = _format_error("Upload Failed", <<>>),
                                         !.pc = "blob_finally"]]
                        /\ UNCHANGED storage
                   [] OTHER ->
                        /\ requests' = [requests EXCEPT ![r] =
                              [rq EXCEPT !.up = up,
                                         !.result = _format_error("Unexpected Error", <<>>),
                                         !.pc = "blob_finally"]]
                        /\ UNCHANGED storage
    /\ UNCHANGED <<outside_requests, contents, local_files>>

\* The finally block: unlink the temporary files held in the two variables
concurrent_finally ==
    /\ \E r \in Requests :
          LET rq   == locals(requests, r)
              held == {t \in {rq.temp_input_path, rq.temp_output_path} :
                          ~Falsy(t) /\ t \in DOMAIN contents}
          IN  /\ rq.pc = "blob_finally"
              /\ contents' = Drop(contents, held)
              /\ requests' = [requests EXCEPT ![r] =
                    [rq EXCEPT !.live = @ \ held, !.pc = "done"]]
    /\ UNCHANGED <<outside_requests, storage, local_files>>

NextConcurrent ==
    \/ concurrent_resolve
    \/ concurrent_download
    \/ concurrent_validate
    \/ concurrent_translate
    \/ concurrent_deliver
    \/ concurrent_upload
    \/ concurrent_finally

SpecConcurrent == InitConcurrent /\ [][NextConcurrent]_vars

(***************************************************************************)
(* The claims.                                                             *)
(***************************************************************************)
BlobPcs == {"blob_resolve", "blob_normalize", "blob_download", "blob_validate",
            "blob_translate", "blob_deliver", "blob_upload", "blob_finally"}
NetworkOps == {"list_containers", "list_blobs", "exists", "download_blob", "translate",
               "upload_blob"}
Failed(op) == \E i \in 1..Len(calls) : calls[i].op = op /\ ~calls[i].ok
Returned(op) == \E i \in 1..Len(calls) : calls[i].op = op /\ calls[i].ok

\* C1: when a storage-mode request has returned, every temporary file
\* created during it is gone (an unlink that itself fails set aside).
C1_TempFilesRemoved ==
    (pc = "done" /\ handler = "_translate_blob_storage" /\ ~cleanup_failed) => tmp = {}

\* C2: a request whose target language does not normalize ends in the
\* invalid-target-language failure, and no listing, download, translation
\* or upload call was made.
C2_InvalidLanguageFirst ==
    (pc = "done" /\ Falsy(normalize_language_code(target_language)))
        => /\ result.kind = "failure"
           /\ result.category \in {"Invalid target language", "Error: Invalid target language"}
           /\ \A i \in 1..Len(calls) : calls[i].op \notin NetworkOps

\* C3: _run returns a message, never an exception: a returned result is a
\* success message or a failure message with a category, and a failure of
\* the cleanup leaves the message of the request as it was.
C3_AlwaysAMessage ==
    /\ [](pc = "done" => /\ result.kind \in {"success", "failure"}
                         /\ result.category # "")
    /\ [][pc = "blob_finally" => result' = result]_vars

\* C3 witness: a request returned although an unlink of its cleanup raised.
C3_Witness ==
    pc = "done" /\ cleanup_failed /\ result.kind = "success" /\ tmp # {}

\* C4: download, translation and upload are each called at most once, no
\* such call follows a failed one, and a failed one ends in a failure.
C4_NoRetry ==
    LET ops == {"exists", "download_blob", "translate", "upload_blob"}
    IN  /\ \A op \in ops : Cardinality({i \in 1..Len(calls) : calls[i].op = op}) <= 1
        /\ \A i \in 1..Len(calls) :
              (calls[i].op \in ops /\ ~calls[i].ok)
                  => \A j \in (i + 1)..Len(calls) : calls[j].op \notin ops
        /\ (pc = "done" /\ \E op \in ops : Failed(op)) => result.kind = "failure"

\* C4 witness: a request ended after its translation call failed, the
\* download before it having succeeded.
C4_Witness ==
    pc = "done" /\ Returned("download_blob") /\ Failed("translate")

\* C5: a request ends in one outcome; success is returned only after the
\* translation call returned and the output was delivered; the backend is
\* called only after the source was resolved and the target normalized;
\* nothing is delivered unless the translation call returned.
C5_SuccessOnlyAfterAllSteps ==
    /\ pc = "done" => result.kind \in {"success", "failure"}
    /\ (pc = "done" /\ result.kind = "success")
          => Returned("translate") /\ delivered # {}
    /\ (Failed("translate") \/ Returned("translate"))
          => /\ ~Falsy(frame.target_lang_code)
             /\ ~Falsy(frame.temp_input_path) \/ ~Falsy(frame.input_path)
    /\ delivered # {} => Returned("translate")

\* C6: with an explicit output destination, the translated bytes go to a
\* destination of the output reference's own kind: storage for a storage
\* URL or path, the local disk for a local path, whatever the input.
C6_OutputKindHonoured ==
    output_file_path # <<>> =>
        \A d \in delivered :
            d.kind = IF is_blob_path(output_file_path) THEN "storage" ELSE "local"

\* the file name of `out` is that of `inp` with '_' and the code before
\* the extension, under the same prefix
SiblingOf(out, inp, code) ==
    \E k \in 0..Len(inp), e \in 1..(Len(inp) + 1) :
        /\ k < e
        /\ k = 0 \/ inp[k] = "/"
        /\ \A i \in (k + 1)..Len(inp) : inp[i] # "/"
        /\ e = Len(inp) + 1 \/ (inp[e] = "." /\ \A i \in (e + 1)..Len(inp) : inp[i] # ".")
        /\ e = Len(inp) + 1 => \A i \in (k + 1)..Len(inp) : inp[i] # "."
        /\ out = SubSeq(inp, 1, e - 1) \o <<"_">> \o code \o SubSeq(inp, e, Len(inp))

C9_DefaultsDispatchLocal ==
    (defaulted /\ pc # "idle")
        => /\ source_language = s_auto /\ output_file_path = <<>>
           /\ (~isabs(file_path) /\ ~HasChar(file_path, "/") /\ ~HasChar(file_path, "\\"))
                 => handler = "_translate_by_filename"
           /\ isabs(file_path) => handler = "_translate_by_full_path"

\* C10: with the flag off a string is handled by the first rule it meets:
\* storage URL (https scheme and storage domain); storage path (contains
\* '/', not absolute, no leading './'); local path (absolute, or contains
\* '/' or '\'); bare filename.
C10_ClassifierRules ==
    pc = "classified" =>
        reference_kind(file_path, handler) =
            IF StartsWith(file_path, s_https) /\ Contains(file_path, s_blob_domain)
            THEN "StorageURL"
            ELSE IF /\ \E i \in 1..Len(file_path) : file_path[i] = "/"
                    /\ ~(Len(file_path) > 0 /\ file_path[1] = "/")
                    /\ ~(Len(file_path) > 1 /\ file_path[1] = "." /\ file_path[2] = "/")
            THEN "StoragePath"
            ELSE IF \/ (Len(file_path) > 0 /\ file_path[1] = "/")
                    \/ \E i \in 1..Len(file_path) : file_path[i] \in {"/", "\\"}
            THEN "LocalPath"
            ELSE "BareFilename"

\* C10 witness: a relative path with a leading './' was handled as a local
\* path, not as a storage path.
C10_Witness ==
    pc = "classified" /\ file_path = <<".", "/", "a">> /\ handler = "_translate_by_full_path"

\* the find_file call returned / the _find_partial_match call returned
FindFileReturned == pc = "returned" /\ handler = "find_file"
PartialReturned  == pc = "returned" /\ handler = "_find_partial_match"

\* file k of the listing has the name asked for, case aside
ExactAt(k) == Lower(arg.listing[k]) = Lower(arg.filename)

\* C11: when the directory holds a file whose name equals the filename,
\* case aside, find_file returns a file of that name, whatever the order of
\* the listing and whatever else the directory holds.
C11_ExactMatchReturned ==
    (FindFileReturned /\ \E k \in 1..Len(arg.listing) : ExactAt(k))
        => ret # None /\ Lower(ret) = Lower(arg.filename)

\* the part of a name before its last dot, and from its last dot on
BaseOf(name) ==
    IF \E i \in 1..Len(name) : name[i] = "."
    THEN SubSeq(name, 1, (CHOOSE i \in 1..Len(name) :
                            name[i] = "." /\ \A j \in (i + 1)..Len(name) : name[j] # ".") - 1)
    ELSE name
ExtOf(name) == SubSeq(name, Len(BaseOf(name)) + 1, Len(name))

\* the length of the longest string that is a substring of both a and b
CommonLen(a, b) ==
    LET common(n) == \E i \in 1..(Len(a) - n + 1), j \in 1..(Len(b) - n + 1) :
                        SubSeq(a, i, i + n - 1) = SubSeq(b, j, j + n - 1)
    IN  CHOOSE n \in 0..Len(a) : common(n) /\ \A m \in (n + 1)..Len(a) : ~common(m)

\* file k qualifies for the partial match, and its score
QualifiesAt(k) ==
    LET file == Lower(arg.listing[k])
        sb   == BaseOf(Lower(arg.filename))
    IN  /\ ExtOf(file) \in {s_pdf, s_docx, s_doc}
        /\ Contains(BaseOf(file), sb) \/ Contains(sb, BaseOf(file))
ScoreAt(k) == CommonLen(BaseOf(Lower(arg.filename)), BaseOf(Lower(arg.listing[k])))

\* C12: the file _find_partial_match returns has a supported extension, its
\* base name contains the search base name or is contained in it, its score
\* is at least 3 and the greatest among the qualifying files, and it is the
\* first of the listing with that score; when the greatest score is below
\* 3 nothing is returned.
C12_PartialMatchIsBest ==
    PartialReturned =>
        LET Q == {k \in 1..Len(arg.listing) : QualifiesAt(k)}
        IN  IF \E k \in Q : ScoreAt(k) >= 3
            THEN \E k \in Q :
                    /\ ret = arg.listing[k]
                    /\ ScoreAt(k) >= 3
                    /\ \A j \in Q : ScoreAt(j) <= ScoreAt(k)
                    /\ \A j \in Q : j < k => ScoreAt(j) < ScoreAt(k)
            ELSE ret = None

\* C12 witness: the file returned is the first of two with the greatest
\* score, and a third qualifying file has a lower score.
C12_Witness ==
    /\ PartialReturned /\ ret # None
    /\ \E i, j, k \in 1..Len(arg.listing) :
          /\ ret = arg.listing[i] /\ i < j /\ QualifiesAt(j) /\ QualifiesAt(k)
          /\ ScoreAt(j) = ScoreAt(i) /\ ScoreAt(k) < ScoreAt(i)

\* file k matches by extension inference: the filename has no extension and
\* the file is the filename plus .pdf, .docx or .doc, or the filename has
\* one and the file has the same base name and a supported extension
InferredAt(k) ==
    LET file == Lower(arg.listing[k])
        name == Lower(arg.filename)
    IN  IF \A i \in 1..Len(name) : name[i] # "."
        THEN file \in {name \o s_pdf, name \o s_docx, name \o s_doc}
        ELSE BaseOf(file) = BaseOf(name) /\ ExtOf(file) \in {s_pdf, s_docx, s_doc}

\* C13: when some file matches by extension inference, find_file returns a
\* file that matches exactly or by extension inference, never one that
\* matches only as a substring.
C13_ExactBeforePartial ==
    (FindFileReturned /\ \E k \in 1..Len(arg.listing) : InferredAt(k))
        => \E k \in 1..Len(arg.listing) :
              ret = arg.listing[k] /\ (ExactAt(k) \/ InferredAt(k))

\* C13 witness: 'Report' is asked for, the listing yields annual_report.pdf
\* (a substring match) before report.docx, and report.docx is returned.
C13_Witness ==
    /\ FindFileReturned /\ arg.filename = n_Report
    /\ arg.listing = <<f_annual_report, f_report_docx>>
    /\ ret = f_report_docx

\* C14: 'report.pdf' asked for in local filename mode with target
\* 'spanish', the Documents folder holding Report.PDF: Report.PDF is
\* selected, the target is es, and once the backend call succeeded the
\* output is Report_es.pdf in the same directory and the success message
\* holds 'es' and the byte count.
C14_ReportScenario ==
    (/\ pc = "done" /\ handler = "_translate_by_filename"
     /\ file_path = r_report /\ Lower(target_language) = <<"s","p","a","n","i","s","h">>
     /\ output_file_path = <<>> /\ d_home_docs \in valid_dirs
     /\ Returned("translate") /\ delivered # {})
        => /\ frame.input_path = PathJoin(d_home_docs, f_Report_PDF)
           /\ frame.target_lang_code = l_es
           /\ delivered = {[kind |-> "local", dest |-> PathJoin(d_home_docs, <<"R","e","p","o","r","t","_","e","s",".","p","d","f">>)]}
           /\ result.kind = "success" /\ result.bytes
           /\ \E i \in 1..Len(result.text) : result.text[i] = l_es

\* the object the storage handler is about to download
InputObject == ParseBlobRef(frame.input_blob_path)
\* the storage handler returned from its download step
EndedAtDownload ==
    /\ pc = "done" /\ handler = "_translate_blob_storage"
    /\ ~Falsy(frame.input_blob_path) /\ ~Falsy(normalize_language_code(target_language))
    /\ Falsy(frame.temp_input_path)

\* C15: a download of an object that does not exist ends in 'Blob Not
\* Found', also when it is the existence check that says so; a client that
\* was not constructed or a failing backend ends in 'Blob Storage Error'.
C15_NotFoundDistinguished ==
    /\ (EndedAtDownload /\ Returned("exists")
            /\ ~BlobExists(storage, InputObject.container, InputObject.blob))
          => result.category = "Blob Not Found"
    /\ (EndedAtDownload /\ (~blob_service_client \/ Failed("exists")))
          => result.category = "Blob Storage Error"

\* C16: parse_blob_url and parse_blob_path either fail (a path without a
\* separator, a reference that yields no container or no key) or return
\* parts that are all non-empty.
C16_MalformedRejected ==
    (pc = "returned" /\ handler \in {"parse_blob_path", "parse_blob_url"} /\ ret.ok)
        => /\ ret.container # <<>> /\ ret.blob # <<>>
           /\ handler = "parse_blob_url" => ret.account # <<>>

\* file matches the name asked for exactly or by extension inference, case
\* aside
MatchesName(filename, file) ==
    LET f    == Lower(file)
        name == Lower(filename)
    IN  \/ f = name
        \/ IF \A i \in 1..Len(name) : name[i] # "."
           THEN f \in {name \o s_pdf, name \o s_docx, name \o s_doc}
           ELSE BaseOf(f) = BaseOf(name) /\ ExtOf(f) \in {s_pdf, s_docx, s_doc}

\* the last component of an object key
KeyFileName(key) ==
    IF \E i \in 1..Len(key) : key[i] = "/"
    THEN SubSeq(key, 1 + (CHOOSE i \in 1..Len(key) :
                            key[i] = "/" /\ \A j \in (i + 1)..Len(key) : key[j] # "/"), Len(key))
    ELSE key

\* the containers the search is to look into, in order: the preferred ones
\* that exist, or else the first five of the account
SearchedContainers(account) ==
    LET exists(c) == \E i \in 1..Len(account) : account[i].name = c
        preferred == SelectSeq(<<<<"d","o","c","u","m","e","n","t","s">>, <<"f","i","l","e","s">>, <<"s","o","u","r","c","e">>, <<"i","n","p","u","t">>>>, exists)
        names     == [i \in 1..Len(account) |-> account[i].name]
    IN  IF preferred # <<>> THEN preferred
        ELSE SubSeq(names, 1, IF Len(names) < 5 THEN Len(names) ELSE 5)

\* the blobs of container c
KeysOf(account, c) == account[CHOOSE i \in 1..Len(account) : account[i].name = c].blobs

\* object j of searched container i matches
MatchAt(i, j) ==
    MatchesName(arg.filename, KeyFileName(KeysOf(arg.account, SearchedContainers(arg.account)[i])[j]))

FindBlobReturned == pc = "returned" /\ handler = "find_blob_by_filename"

NormalizeReturned == pc = "returned" /\ handler = "normalize_language_code"

\* C18: normalization is idempotent: a code that normalize_language_code
\* returned normalizes to itself.
C18_Idempotent ==
    (NormalizeReturned /\ ret # None) => normalize_language_code(ret) = ret

\* C18 witness: a language name was normalized to its code.
C18_Witness ==
    NormalizeReturned /\ arg = <<"G","E","R","M","A","N">> /\ ret = <<"d","e">>

\* the text without the spaces around it, in lower case
Folded(text) ==
    LET inner == {i \in 1..Len(text) : text[i] # " "}
        first == CHOOSE i \in inner : \A j \in inner : i <= j
        last  == CHOOSE i \in inner : \A j \in inner : j <= i
    IN  IF inner = {} THEN <<>>
        ELSE [i \in 1..(last - first + 1) |-> LowerChar(text[first + i - 1])]

\* the names and the codes the table knows
KnownNames == {e[1] : e \in language_codes}
KnownCodes == {e[2] : e \in language_codes}

\* C19: a text that is neither a language name nor a language code of the
\* table normalizes to None; so do 'invalid' and 'xyz'.
C19_UnknownIsNone ==
    NormalizeReturned =>
        /\ Folded(arg) \notin KnownNames \cup KnownCodes => ret = None
        /\ arg \in {<<"i","n","v","a","l","i","d">>, <<"x","y","z">>} => ret = None

TranslateCalls == {i \in 1..Len(calls) : calls[i].op = "translate"}

\* a canonical code: 2 or 3 lower-case letters, not the sentinel
CanonicalCode(code) ==
    /\ Len(code) \in {2, 3}
    /\ \A i \in 1..Len(code) : code[i] \in Range(LowerAlphabet)
    /\ code # s_auto

\* C21: whichever entry point is used (AuditIqDocumentTranslator._run,
\* translate_document, DocumentTranslationTool._run), the target language
\* the translation backend is called with is a canonical code of 2 or 3
\* lower-case letters, never empty and never 'auto'.
C21_TargetIsCanonical ==
    \A i \in TranslateCalls : CanonicalCode(calls[i].kwargs.target_language)

PerformStep ==
    /\ pc \in {"blob_translate", "filename_translate", "full_path_translate"}
    /\ frame'.translation_result # NoResult

\* C23: when the endpoint or the key is not configured,
\* _perform_azure_translation returns the credentials-not-configured
\* failure and does nothing else: no client is constructed, the backend is
\* not called, the input is not read and no output file is created or
\* written.
C23_NoCredentialsNoWork ==
    [][(PerformStep /\ credentials_missing(frame'.endpoint, frame'.key))
          => /\ frame'.translation_result =
                    Msg("failure", "Error: Azure Document Translation credentials not configured",
                        <<>>, FALSE)
             /\ calls' = calls
             /\ delivered' = delivered
             /\ local_files' = local_files
             /\ tmp' = tmp
             /\ storage' = storage]_vars

\* C23 witness: a request for an existing local file ended in the
\* credentials failure with the endpoint set and the key empty, and no call
\* was made.
C23_Witness ==
    /\ pc = "done" /\ handler = "_translate_by_full_path"
    /\ ~Falsy(frame.endpoint) /\ frame.key = <<>>
    /\ result.category = "Error: Azure Document Translation credentials not configured"
    /\ calls = <<>> /\ delivered = {}

\* the names a message may use for the request's input / output
InputNames ==
    LET refs == {x \in {frame.input_blob_path, frame.input_path} : ~Falsy(x)}
    IN  refs \cup {basename(x) : x \in refs}
OutputNames ==
    LET refs == {d.dest : d \in delivered}
    IN  refs \cup {basename(x) : x \in refs}

\* C24: the success message of a request whose translation was written and
\* delivered, whatever the delivery mode (local output, storage upload,
\* storage input with local output), names the input and the output and
\* states the byte count of the translated output.
C24_SuccessNamesAndBytes ==
    (pc = "done" /\ result.kind = "success" /\ Returned("write") /\ delivered # {})
        => /\ \E i \in 1..Len(result.text) : result.text[i] \in InputNames
           /\ \E i \in 1..Len(result.text) : result.text[i] \in OutputNames
           /\ result.bytes

\* the _get_content_type call returned
ContentTypeReturned == pc = "returned" /\ handler = "_get_content_type"

\* C25: _get_content_type never fails: it returns the fixed MIME type for
\* .pdf, .docx and .doc and application/octet-stream for an extension it
\* does not know.
C25_ContentTypeTotal ==
    ContentTypeReturned =>
        LET ext == Lower(splitext(arg)[2])
        IN  /\ ret.exc = "none"
            /\ ext = s_pdf => ret.content_type = "application/pdf"
            /\ ext = s_docx => ret.content_type =
                  "application/vnd.openxmlformats-officedocument.wordprocessingml.document"
            /\ ext = s_doc => ret.content_type = "application/msword"
            /\ (\A e \in content_type_mapping : e[1] # ext)
                  => ret.content_type = "application/octet-stream"

\* the find_documents_folder call returned and nothing changed since
FolderReturned == pc = "returned" /\ handler = "find_documents_folder"

\* the candidates by priority: the configured override when set, Documents
\* under the working directory, under its parent, the user's Documents
\* folder, the platform's extra
FolderPriority ==
    (IF arg.env_path \in {None, <<>>} THEN <<>> ELSE <<arg.env_path>>)
    \o <<d_cwd_docs, d_parent_docs, d_home_docs>>
    \o (IF arg.username = None THEN <<>> ELSE <<d_legacy>>)

\* C26: whatever directories appeared and disappeared before the call,
\* find_documents_folder returns the candidate of highest priority that is
\* a readable directory at the time of the call, in the order override,
\* working directory, parent, user's folder, platform extra, and None
\* exactly when no candidate is one; an earlier result has no influence.
C26_HighestPriorityValid ==
    FolderReturned =>
        /\ ret = None <=> \A i \in 1..Len(FolderPriority) : FolderPriority[i] \notin valid_dirs
        /\ ret # None =>
              \E i \in 1..Len(FolderPriority) :
                  /\ ret = FolderPriority[i]
                  /\ ret \in valid_dirs
                  /\ \A j \in 1..(i - 1) : FolderPriority[j] \notin valid_dirs

\* C26 witness: the override, the user's folder and the platform's extra
\* exist, the working directory's Documents does not, and the override is
\* returned.
C26_Witness ==
    /\ FolderReturned /\ arg.env_path = d_custom /\ ret = d_custom
    /\ {d_custom, d_home_docs, d_legacy} \subseteq valid_dirs
    /\ d_cwd_docs \notin valid_dirs

\* C27: two concurrent requests never hold the same temporary file: the
\* files each created and has not yet removed are disjoint from the
\* other's, and a step of one request leaves every temporary file of the
\* other in place with what it held (no cleanup deletes and no write
\* touches a file of the other request).
C27_TempFilesDisjoint ==
    /\ [](\A r \in DOMAIN requests, q \in DOMAIN requests :
             r # q => requests[r].live \cap requests[q].live = {})
    /\ [][\A q \in DOMAIN requests :
             requests'[q] = requests[q]
                 => \A p \in requests[q].live :
                       p \in DOMAIN contents' /\ contents'[p] = contents[p]]_vars

\* C27 witness: the cleanup of request 1 has run and removed its two files
\* while request 2, about to upload, still holds its own two with the
\* translation of its own source.
C27_Witness ==
    /\ DOMAIN requests = Requests
    /\ requests[1].pc = "done" /\ requests[1].live = {}
    /\ ~Falsy(requests[1].temp_input_path) /\ ~Falsy(requests[1].temp_output_path)
    /\ requests[2].pc = "blob_upload"
    /\ requests[2].live = {requests[2].temp_input_path, requests[2].temp_output_path}
    /\ requests[2].live \subseteq DOMAIN contents
    /\ contents[requests[2].temp_output_path] =
           [src |-> requests[2].input_blob_path, translated |-> TRUE]

\* what a request made known: its outcome and the output it produced
Outcome(rq) ==
    [kind |-> rq.result.kind, category |-> rq.result.category, output |-> rq.output]

\* the request run alone on the storage as it was before, with the same
\* things happening in its download, translation and upload
alone(rq) ==
    LET Choice(c) == IF c = "unset" THEN "ok" ELSE c
        found == find_blob_by_filename(rq.file_path, TRUE, Storage0, TRUE, TRUE).found
        input == IF is_blob_path(rq.file_path) THEN rq.file_path ELSE found
        code  == normalize_language_code(rq.target_language)
        d     == download_blob_to_temp(input, TRUE, Storage0, Choice(rq.dl), 1)
        ext   == Lower(splitext(d.original_filename)[2])
        t     == _perform_azure_translation(Choice(rq.tx), d.temp_path, code,
                                            rq.source_language, TempName(2, ext))
        dest  == IF rq.output_file_path # <<>>
                 THEN rq.output_file_path
                 ELSE get_suggested_output_blob_path(input, code)
        u     == upload_file_to_blob(dest, TRUE, Storage0, Choice(rq.up))
        Fails(category) == [kind |-> "failure", category |-> category, output |-> NoOutput]
        Succeeds(category) ==
            [kind |-> "success", category |-> category,
             output |-> [dest |-> dest, content |-> [src |-> input, translated |-> TRUE]]]
    IN  IF Falsy(input) THEN Fails("Blob Not Found")
        ELSE IF Falsy(code) THEN Fails("Invalid target language")
        ELSE IF d.exc = "FileNotFoundError" THEN Fails("Blob Not Found")
        ELSE IF d.exc = "RuntimeError" THEN Fails("Blob Storage Error")
        ELSE IF ext \notin supported_extensions THEN Fails("Unsupported File Format")
        ELSE IF ~is_success_result(t) THEN Fails("Translation Failed")
        ELSE IF rq.output_file_path # <<>> /\ ~is_blob_path(rq.output_file_path)
             THEN Succeeds("Translation Successful (Mixed Storage)")
        ELSE IF u.exc = "none" THEN Succeeds("Translation Successful (Blob Storage)")
        ELSE IF u.exc = "RuntimeError" THEN Fails("Upload Failed")
        ELSE Fails("Unexpected Error")

\* the object a request reads and the destination it writes, on the
\* storage as it was before
SourceObject(rq) ==
    IF is_blob_path(rq.file_path)
    THEN rq.file_path
    ELSE find_blob_by_filename(rq.file_path, TRUE, Storage0, TRUE, TRUE).found
Destination(rq) ==
    IF rq.output_file_path # <<>>
    THEN rq.output_file_path
    ELSE get_suggested_output_blob_path(SourceObject(rq),
                                        normalize_language_code(rq.target_language))

\* no request writes what the other reads or writes
Independent ==
    \A r \in DOMAIN requests, q \in DOMAIN requests :
        r # q => /\ Destination(requests[r]) # SourceObject(requests[q])
                 /\ Destination(requests[r]) # Destination(requests[q])

\* C28 as stated: two concurrent requests with different source references
\* and different output destinations each return the outcome and produce
\* the output they return and produce alone, under every interleaving.
C28_SameAsAlone ==
    \A r \in DOMAIN requests :
        requests[r].pc = "done" => Outcome(requests[r]) = alone(requests[r])

\* C28 amended: the same, for two requests none of which writes the object
\* the other reads.
C28_SameAsAloneIndependent ==
    \A r \in DOMAIN requests :
        (requests[r].pc = "done" /\ Independent)
            => Outcome(requests[r]) = alone(requests[r])

\* C28 witness: two independent requests, one uploading to storage and one
\* writing a local file, both ended in success after their steps
\* interleaved: each created its temporary output while the other held its
\* temporary input.
C28_Witness ==
    /\ DOMAIN requests = Requests /\ Independent
    /\ \A r \in Requests : requests[r].pc = "done" /\ requests[r].result.kind = "success"
    /\ requests[1].output.dest = o_local_abs
    /\ requests[2].output.dest = <<"d","o","c","u","m","e","n","t","s","/","r","e","p","o","r","t","_","e","s",".","p","d","f">>
    /\ requests[1].temp_input_path # requests[2].temp_input_path
    /\ requests[1].temp_output_path # requests[2].temp_output_path
    /\ requests[1].temp_output_path # requests[2].temp_input_path

\* the object a storage reference names
ObjectOf(ref) == LET p == ParseBlobRef(ref) IN <<p.container, p.blob>>

\* C29: when the output destination is omitted, a request never writes to,
\* overwrites or deletes its source: every destination it writes differs
\* from the source reference and names another object or file, no step
\* removes an object from storage or a file from the disk, and the only
\* files a step deletes are temporary files the request holds in its own
\* locals.
C29_SourcePreserved ==
    /\ [](output_file_path = <<>> =>
            \A d \in delivered :
               IF handler = "_translate_blob_storage"
               THEN /\ d.dest # frame.input_blob_path
                    /\ ObjectOf(d.dest) # ObjectOf(frame.input_blob_path)
               ELSE /\ d.dest # frame.input_path
                    /\ abspath(d.dest) # abspath(frame.input_path))
    /\ [][output_file_path = <<>> =>
            /\ \A i \in 1..Len(storage) :
                  /\ i \in 1..Len(storage')
                  /\ storage'[i].name = storage[i].name
                  /\ \A j \in 1..Len(storage[i].blobs) :
                        /\ j \in 1..Len(storage'[i].blobs)
                        /\ storage'[i].blobs[j] = storage[i].blobs[j]
            /\ local_files \subseteq local_files'
            /\ docs' = docs
            /\ (tmp \ tmp') \subseteq {frame.temp_input_path, frame.temp_output_path}]_vars

\* C29 witness: a storage request without an output argument succeeded, its
\* translation was uploaded next to the source, the source object is still
\* in storage and the two temporary files the request created are deleted.
C29_Witness ==
    /\ pc = "done" /\ handler = "_translate_blob_storage" /\ result.kind = "success"
    /\ output_file_path = <<>> /\ file_path = r_blob_path
    /\ BlobExists(storage, c_mycontainer, r_report)
    /\ \E d \in delivered : d.kind = "storage" /\ ObjectOf(d.dest) # ObjectOf(file_path)
    /\ tmp_count = 2 /\ tmp = {}

\* C30: in storage mode a request that ends in a failure made no upload
\* that succeeded and wrote nothing to storage; the storage success message
\* is returned only after the upload returned; and when the upload step,
\* reached after a successful translation, does not succeed, the outcome is
\* 'Upload Failed'.
C30_UploadFailureReported ==
    (pc = "done" /\ handler = "_translate_blob_storage") =>
       /\ result.kind = "failure"
             => /\ ~Returned("upload_blob")
                /\ \A d \in delivered : d.kind # "storage"
       /\ result.category = "Translation Successful (Blob Storage)"
             => Returned("upload_blob")
       /\ (~Falsy(frame.output_blob_path) /\ ~Returned("upload_blob"))
             => result.category = "Upload Failed"
====
